---- MODULE Spec2Model ----
(***************************************************************************)
(* Model of the mahjong match engine: the authoritative MatchState         *)
(* (mahjong-shared/src/match_state.rs), the Hand it is built from          *)
(* (hand.rs), the tile layer (tile.rs), the client-side LocalState         *)
(* (client.rs) and the events the match controller sends                   *)
(* (mahjong-server/src/match_controller.rs).                               *)
(*                                                                         *)
(* Encoding.  A Tile value is the index 0..33 of its kind in TILE_SET      *)
(* order (Simple(suit, number), Dragon(d), WindTile(w) build the indices); *)
(* a TileId is 0..135; a TileInstance is the record [id, tile].  An        *)
(* Option<T> is a sequence of length 0 or 1.  A HashMap is a function      *)
(* whose DOMAIN is the set of keys.  An operation that returns a Result is *)
(* an operator that returns [status, st, ret]: status is "ok", "err" or    *)
(* "panic", st is the state the operation leaves behind (whatever the      *)
(* status), ret is the returned value.                                     *)
(***************************************************************************)
EXTENDS Integers, Sequences, FiniteSets, TLC

\* ------------------------------------------------------------------ bounds

\* Number of tiles left in the wall after the four hands are dealt.
MaxWall == 3

\* A discard request names one of the first MaxDiscardChoice tiles of a hand,
\* its current draw, or a tile the seat cannot discard.
MaxDiscardChoice == 2

\* Events a player behind a ClientController answers otherwise than a dummy
\* would.
MaxOtherAnswers == 1

\* Tiles of a hand on its own that are chosen freely, and the melds it may
\* call.
MaxCore == 3
MaxHandCalls == 1

\* ------------------------------------------------------------------- tiles

Wind == {"East", "South", "West", "North"}

WindOrder == <<"East", "South", "West", "North">>

next(seat) ==
    CASE seat = "East" -> "South"
      [] seat = "South" -> "West"
      [] seat = "West" -> "North"
      [] seat = "North" -> "East"

RECURSIVE distance_to(_, _)
distance_to(self, other) ==
    IF self = other THEN 0 ELSE 1 + distance_to(next(self), other)

NumSuits == 3
NumRanks == 9
NumCopies == 4
NumDragons == 3
NumWinds == 4

NumSimpleKinds == NumSuits * NumRanks
NumKinds == NumSimpleKinds + NumDragons + NumWinds
NumTiles == NumKinds * NumCopies

Tile == 0 .. (NumKinds - 1)
TileId == 0 .. (NumTiles - 1)

Simple(suit, number) == suit * NumRanks + (number - 1)
Dragon(d) == NumSimpleKinds + d
WindTile(w) == NumSimpleKinds + NumDragons + w

is_simple(t) == t < NumSimpleKinds
is_dragon(t) == t >= NumSimpleKinds /\ t < NumSimpleKinds + NumDragons
suit_of(t) == t \div NumRanks
number_of(t) == (t % NumRanks) + 1

\* The derived Ord of Tile: Simple < Wind < Dragon by variant order; simple
\* tiles by (number, suit), the field order of SimpleTile.
TileOrdKey(t) ==
    IF is_simple(t) THEN number_of(t) * NumSuits + suit_of(t)
    ELSE IF is_dragon(t) THEN 200 + (t - NumSimpleKinds)
    ELSE 100 + (t - NumSimpleKinds - NumDragons)

TileLess(a, b) == TileOrdKey(a) < TileOrdKey(b)

\* The generation loops: suits, numbers, four copies; dragons; winds; ids
\* counted up from 0.
TILE_SET == [i \in 1 .. NumTiles |-> [id |-> i - 1, tile |-> (i - 1) \div NumCopies]]

KnownId(id) == \E i \in 1 .. NumTiles : TILE_SET[i].id = id

\* Panics on an unknown id: callers check KnownId first.
by_id(id) == TILE_SET[CHOOSE i \in 1 .. NumTiles : TILE_SET[i].id = id].tile

is_sequence(values) ==
    \A i \in 2 .. Len(values) : values[i] = values[i - 1] + 1

\* is_chow without the ordering (third, first, second).
is_chow_missing_ordering(first, second, third) ==
    IF ~is_simple(first) THEN FALSE
    ELSE IF ~is_simple(second) THEN FALSE
    ELSE IF ~is_simple(third) THEN FALSE
    ELSE IF suit_of(first) # suit_of(second) \/ suit_of(first) # suit_of(third) THEN FALSE
    ELSE LET a == number_of(first)
             b == number_of(second)
             c == number_of(third)
         IN \/ is_sequence(<<a, b, c>>)
            \/ is_sequence(<<a, c, b>>)
            \/ is_sequence(<<b, a, c>>)
            \/ is_sequence(<<b, c, a>>)
            \/ is_sequence(<<c, b, a>>)

is_chow(first, second, third) ==
    IF ~is_simple(first) THEN FALSE
    ELSE IF ~is_simple(second) THEN FALSE
    ELSE IF ~is_simple(third) THEN FALSE
    ELSE IF suit_of(first) # suit_of(second) \/ suit_of(first) # suit_of(third) THEN FALSE
    ELSE LET a == number_of(first)
             b == number_of(second)
             c == number_of(third)
         IN \/ is_sequence(<<a, b, c>>)
            \/ is_sequence(<<a, c, b>>)
            \/ is_sequence(<<b, a, c>>)
            \/ is_sequence(<<b, c, a>>)
            \/ is_sequence(<<c, a, b>>)
            \/ is_sequence(<<c, b, a>>)

\* ----------------------------------------------------------- sequence helpers

Range(s) == {s[i] : i \in 1 .. Len(s)}

\* The set holding the last element of s, empty when s is.
LastOf(s) == IF s = <<>> THEN {} ELSE {s[Len(s)]}

RemoveAt(s, i) == SubSeq(s, 1, i - 1) \o SubSeq(s, i + 1, Len(s))

\* Index of the first element with the id, 0 when there is none.
PositionById(s, id) ==
    IF \E i \in 1 .. Len(s) : s[i].id = id
    THEN CHOOSE i \in 1 .. Len(s) : s[i].id = id /\ \A j \in 1 .. (i - 1) : s[j].id # id
    ELSE 0

FilterByTile(s, t) == SelectSeq(s, LAMBDA x : x.tile = t)

RejectByTile(s, t) == SelectSeq(s, LAMBDA x : x.tile # t)

\* Stable insertion of the keyed element x into the sequence s sorted by key:
\* after every element whose key is not greater.
RECURSIVE InsertSorted(_, _)
InsertSorted(s, x) ==
    IF s = <<>> THEN <<x>>
    ELSE IF x.key < Head(s).key THEN <<x>> \o s
    ELSE <<Head(s)>> \o InsertSorted(Tail(s), x)

\* Vec::sort_by_key on elements [key, val]: a stable sort by key.
RECURSIVE StableSort(_)
StableSort(s) ==
    IF s = <<>> THEN <<>>
    ELSE InsertSorted(StableSort(SubSeq(s, 1, Len(s) - 1)), s[Len(s)])

\* Vec::dedup_by_key on elements [key, val]: drops an element whose key equals
\* the key of the last element kept.
RECURSIVE DedupByKey(_)
DedupByKey(s) ==
    IF Len(s) <= 1 THEN s
    ELSE LET kept == DedupByKey(SubSeq(s, 1, Len(s) - 1))
             x == s[Len(s)]
         IN IF x.key = kept[Len(kept)].key THEN kept ELSE Append(kept, x)

\* -------------------------------------------------------------------- calls

Chii(id_a, id_b) == <<"Chii", id_a, id_b>>
Pon(id_a, id_b) == <<"Pon", id_a, id_b>>
Kan(tile) == <<"Kan", tile>>
Ron == <<"Ron">>

CallKind(call) == call[1]

\* Option<Call>: <<>> is a pass, <<call>> a call.
Pass == <<>>

\* --------------------------------------------------------------------- hand

\* Tiles of a starting hand.
HandSize == 13

\* HandState::new: the last 13 tiles of draw_from; ret is what is left of
\* draw_from.  Panics when draw_from is too short.
Hand_new(draw_from) ==
    IF Len(draw_from) < HandSize
    THEN [status |-> "panic", st |-> <<>>, ret |-> draw_from]
    ELSE [status |-> "ok",
          st |-> [tiles |-> SubSeq(draw_from, Len(draw_from) - HandSize + 1, Len(draw_from)),
                  current_draw |-> <<>>,
                  open_chows |-> <<>>,
                  open_pongs |-> <<>>,
                  open_kongs |-> <<>>,
                  closed_kongs |-> <<>>,
                  discards |-> <<>>],
          ret |-> SubSeq(draw_from, 1, Len(draw_from) - HandSize)]

Hand_draw_tile(hand, tile) ==
    IF hand.current_draw # <<>>
    THEN [status |-> "err", st |-> hand, ret |-> "DrawError"]
    ELSE [status |-> "ok", st |-> [hand EXCEPT !.current_draw = <<tile>>], ret |-> "unit"]

\* discard_tile copying the current draw into the hand without taking it.
Hand_discard_tile_keeping_draw(hand, id) ==
    IF hand.current_draw = <<>>
    THEN [status |-> "err", st |-> hand, ret |-> "NoDraw"]
    ELSE LET index == PositionById(hand.tiles, id)
         IN IF index # 0
            THEN \* the tile leaves the hand and the draw joins the hand
                 [status |-> "ok",
                  st |-> [hand EXCEPT !.tiles = RemoveAt(hand.tiles, index) \o hand.current_draw,
                                      !.discards = Append(hand.discards, hand.tiles[index])],
                  ret |-> "unit"]
            ELSE IF hand.current_draw[1].id = id
            THEN [status |-> "ok",
                  st |-> [hand EXCEPT !.discards = Append(hand.discards, hand.current_draw[1]),
                                      !.current_draw = <<>>],
                  ret |-> "unit"]
            ELSE [status |-> "err", st |-> hand, ret |-> "NotInHand"]

\* discard_tile taking the current draw before it knows the id is held.
Hand_discard_tile_taking_draw(hand, id) ==
    IF hand.current_draw = <<>>
    THEN [status |-> "err", st |-> hand, ret |-> "NoDraw"]
    ELSE LET index == PositionById(hand.tiles, id)
         IN IF index # 0
            THEN [status |-> "ok",
                  st |-> [hand EXCEPT !.tiles = RemoveAt(hand.tiles, index) \o hand.current_draw,
                                      !.discards = Append(hand.discards, hand.tiles[index]),
                                      !.current_draw = <<>>],
                  ret |-> "unit"]
            ELSE IF hand.current_draw[1].id = id
            THEN [status |-> "ok",
                  st |-> [hand EXCEPT !.discards = Append(hand.discards, hand.current_draw[1]),
                                      !.current_draw = <<>>],
                  ret |-> "unit"]
            ELSE [status |-> "err", st |-> [hand EXCEPT !.current_draw = <<>>],
                  ret |-> "NotInHand"]

\* discard_tile putting the current draw in front of the concealed tiles.
Hand_discard_tile_draw_in_front(hand, id) ==
    IF hand.current_draw = <<>>
    THEN [status |-> "err", st |-> hand, ret |-> "NoDraw"]
    ELSE LET index == PositionById(hand.tiles, id)
         IN IF index # 0
            THEN [status |-> "ok",
                  st |-> [hand EXCEPT !.tiles = hand.current_draw \o RemoveAt(hand.tiles, index),
                                      !.discards = Append(hand.discards, hand.tiles[index]),
                                      !.current_draw = <<>>],
                  ret |-> "unit"]
            ELSE IF hand.current_draw[1].id = id
            THEN [status |-> "ok",
                  st |-> [hand EXCEPT !.discards = Append(hand.discards, hand.current_draw[1]),
                                      !.current_draw = <<>>],
                  ret |-> "unit"]
            ELSE [status |-> "err", st |-> hand, ret |-> "NotInHand"]

Hand_discard_tile(hand, id) ==
    IF hand.current_draw = <<>>
    THEN [status |-> "err", st |-> hand, ret |-> "NoDraw"]
    ELSE LET index == PositionById(hand.tiles, id)
         IN IF index # 0
            THEN \* the tile leaves the hand and the draw joins the hand
                 [status |-> "ok",
                  st |-> [hand EXCEPT !.tiles = RemoveAt(hand.tiles, index) \o hand.current_draw,
                                      !.discards = Append(hand.discards, hand.tiles[index]),
                                      !.current_draw = <<>>],
                  ret |-> "unit"]
            ELSE IF hand.current_draw[1].id = id
            THEN [status |-> "ok",
                  st |-> [hand EXCEPT !.discards = Append(hand.discards, hand.current_draw[1]),
                                      !.current_draw = <<>>],
                  ret |-> "unit"]
            ELSE [status |-> "err", st |-> hand, ret |-> "NotInHand"]

\* itertools tuple_combinations over the concealed tiles, filtered by is_chow:
\* the pairs (tiles[i], tiles[j]), i < j, in lexicographic index order.  This
\* is the part of them whose first tile is at index i or after.
RECURSIVE ChowPairsFrom(_, _, _)
ChowPairsFrom(tiles, discard, i) ==
    IF i >= Len(tiles) THEN <<>>
    ELSE LET seconds == SelectSeq(SubSeq(tiles, i + 1, Len(tiles)),
                                  LAMBDA t : is_chow(discard, tiles[i].tile, t.tile))
         IN [k \in 1 .. Len(seconds) |-> [first |-> tiles[i], second |-> seconds[k]]]
            \o ChowPairsFrom(tiles, discard, i + 1)

\* The key of the first sort: the pair's tile values, lower one first.
SortKeyByTile(pair) ==
    IF TileLess(pair.first.tile, pair.second.tile)
    THEN TileOrdKey(pair.first.tile) * 1000 + TileOrdKey(pair.second.tile)
    ELSE TileOrdKey(pair.second.tile) * 1000 + TileOrdKey(pair.first.tile)

\* The key of dedup_by_key: the pair's tile values in the pair's own order.
DedupKey(pair) == TileOrdKey(pair.first.tile) * 1000 + TileOrdKey(pair.second.tile)

\* The key of the second sort: the pair's ids.
SortKeyById(pair) == pair.first.id * 1000 + pair.second.id

\* The pairs of s, each with the key the first sort, the dedup and the second
\* sort give it.
KeyedByTile(s) == [i \in 1 .. Len(s) |-> [key |-> SortKeyByTile(s[i]), val |-> s[i]]]

KeyedForDedup(s) == [i \in 1 .. Len(s) |-> [key |-> DedupKey(s[i]), val |-> s[i]]]

KeyedById(s) == [i \in 1 .. Len(s) |-> [key |-> SortKeyById(s[i]), val |-> s[i]]]

Unkeyed(s) == [i \in 1 .. Len(s) |-> s[i].val]

chii_calls(hand, discard) ==
    LET found == ChowPairsFrom(hand.tiles, discard, 1)
        sorted == Unkeyed(StableSort(KeyedByTile(found)))
        deduped == Unkeyed(DedupByKey(KeyedForDedup(sorted)))
        resorted == Unkeyed(StableSort(KeyedById(deduped)))
    IN [i \in 1 .. Len(resorted) |-> Chii(resorted[i].first.id, resorted[i].second.id)]

matching_tiles_in_hand(hand, discard) == FilterByTile(hand.tiles, discard)

\* The assertion of find_possible_calls fails.
find_possible_calls_panics(hand, discard) == Len(matching_tiles_in_hand(hand, discard)) > 3

\* find_possible_calls offering a Kan for two matching tiles already.
find_possible_calls_kan_from_pair(hand, discard, can_call_chii) ==
    LET matching == matching_tiles_in_hand(hand, discard)
    IN (IF can_call_chii THEN chii_calls(hand, discard) ELSE <<>>)
       \o (IF Len(matching) >= 2 THEN <<Pon(matching[1].id, matching[2].id)>> ELSE <<>>)
       \o (IF Len(matching) >= 2 THEN <<Kan(discard)>> ELSE <<>>)

find_possible_calls(hand, discard, can_call_chii) ==
    LET matching == matching_tiles_in_hand(hand, discard)
    IN (IF can_call_chii THEN chii_calls(hand, discard) ELSE <<>>)
       \o (IF Len(matching) >= 2 THEN <<Pon(matching[1].id, matching[2].id)>> ELSE <<>>)
       \o (IF Len(matching) = 3 THEN <<Kan(discard)>> ELSE <<>>)

\* remove_tile_by_id: ret is the removed tile.
remove_tile_by_id(hand, id) ==
    LET index == PositionById(hand.tiles, id)
    IN IF index = 0
       THEN [status |-> "err", st |-> hand, ret |-> "NotFound"]
       ELSE [status |-> "ok",
             st |-> [hand EXCEPT !.tiles = RemoveAt(hand.tiles, index)],
             ret |-> hand.tiles[index]]

call_tile_ron(hand, discard) ==
    [status |-> "ok", st |-> [hand EXCEPT !.tiles = Append(hand.tiles, discard)], ret |-> "unit"]

call_tile_kan(hand, discard, tile) ==
    IF tile # discard.tile
    THEN [status |-> "panic", st |-> hand, ret |-> "assert_eq"]
    ELSE LET kong_tiles == FilterByTile(hand.tiles, discard.tile)
         IN IF Len(kong_tiles) # 3
            THEN [status |-> "err", st |-> hand, ret |-> "CallInvalid"]
            ELSE [status |-> "ok",
                  st |-> [hand EXCEPT
                            !.tiles = RejectByTile(hand.tiles, discard.tile),
                            !.open_kongs = Append(hand.open_kongs,
                                <<discard, kong_tiles[1], kong_tiles[2], kong_tiles[3]>>)],
                  ret |-> "unit"]

\* call_tile for Pon leaving the second tile of the call in the hand.
call_tile_pon_keeping_second(hand, discard, id_a, id_b) ==
    IF PositionById(hand.tiles, id_a) = 0
    THEN [status |-> "err", st |-> hand, ret |-> "CallInvalid"]
    ELSE IF PositionById(hand.tiles, id_b) = 0
    THEN [status |-> "err", st |-> hand, ret |-> "CallInvalid"]
    ELSE LET ra == remove_tile_by_id(hand, id_a)
             rb == remove_tile_by_id(ra.st, id_b)
         IN IF ra.status # "ok" THEN [status |-> "err", st |-> ra.st, ret |-> "CallInvalid"]
            ELSE IF rb.status # "ok" THEN [status |-> "err", st |-> rb.st, ret |-> "CallInvalid"]
            ELSE [status |-> "ok",
                  st |-> [ra.st EXCEPT
                            !.open_pongs = Append(ra.st.open_pongs, <<discard, ra.ret, rb.ret>>)],
                  ret |-> "unit"]

\* call_tile for Pon removing the two tiles without adding the open pong.
call_tile_pon_forgetting_meld(hand, discard, id_a, id_b) ==
    IF PositionById(hand.tiles, id_a) = 0
    THEN [status |-> "err", st |-> hand, ret |-> "CallInvalid"]
    ELSE IF PositionById(hand.tiles, id_b) = 0
    THEN [status |-> "err", st |-> hand, ret |-> "CallInvalid"]
    ELSE LET ra == remove_tile_by_id(hand, id_a)
             rb == remove_tile_by_id(ra.st, id_b)
         IN IF ra.status # "ok" THEN [status |-> "err", st |-> ra.st, ret |-> "CallInvalid"]
            ELSE IF rb.status # "ok" THEN [status |-> "err", st |-> rb.st, ret |-> "CallInvalid"]
            ELSE [status |-> "ok", st |-> rb.st, ret |-> "unit"]

call_tile_pon(hand, discard, id_a, id_b) ==
    IF PositionById(hand.tiles, id_a) = 0
    THEN [status |-> "err", st |-> hand, ret |-> "CallInvalid"]
    ELSE IF PositionById(hand.tiles, id_b) = 0
    THEN [status |-> "err", st |-> hand, ret |-> "CallInvalid"]
    ELSE LET ra == remove_tile_by_id(hand, id_a)
             rb == remove_tile_by_id(ra.st, id_b)
         IN IF ra.status # "ok" THEN [status |-> "err", st |-> ra.st, ret |-> "CallInvalid"]
            ELSE IF rb.status # "ok" THEN [status |-> "err", st |-> rb.st, ret |-> "CallInvalid"]
            ELSE [status |-> "ok",
                  st |-> [rb.st EXCEPT
                            !.open_pongs = Append(rb.st.open_pongs, <<discard, ra.ret, rb.ret>>)],
                  ret |-> "unit"]

call_tile_chii(hand, discard, id_a, id_b) ==
    LET ia == PositionById(hand.tiles, id_a)
        ib == PositionById(hand.tiles, id_b)
    IN IF ia = 0 THEN [status |-> "err", st |-> hand, ret |-> "CallInvalid"]
       ELSE IF ib = 0 THEN [status |-> "err", st |-> hand, ret |-> "CallInvalid"]
       ELSE IF ~is_chow(discard.tile, hand.tiles[ia].tile, hand.tiles[ib].tile)
       THEN [status |-> "err", st |-> hand, ret |-> "CallInvalid"]
       ELSE LET tile_a == hand.tiles[ia]
                rest == RemoveAt(hand.tiles, ia)
                jb == PositionById(rest, id_b)
            IN IF jb = 0
               THEN \* the second unwrap
                    [status |-> "panic", st |-> [hand EXCEPT !.tiles = rest], ret |-> "unwrap"]
               ELSE [status |-> "ok",
                     st |-> [hand EXCEPT
                               !.tiles = RemoveAt(rest, jb),
                               !.open_chows = Append(hand.open_chows,
                                   <<discard, tile_a, rest[jb]>>)],
                     ret |-> "unit"]

Hand_call_tile(hand, discard, call) ==
    CASE CallKind(call) = "Ron" -> call_tile_ron(hand, discard)
      [] CallKind(call) = "Kan" -> call_tile_kan(hand, discard, call[2])
      [] CallKind(call) = "Pon" -> call_tile_pon(hand, discard, call[2], call[3])
      [] CallKind(call) = "Chii" -> call_tile_chii(hand, discard, call[2], call[3])

\* call_last_discard reading the last discard without popping it.
call_last_discard_keeping(hand) ==
    IF hand.discards = <<>>
    THEN [status |-> "ok", st |-> hand, ret |-> <<>>]
    ELSE [status |-> "ok",
          st |-> hand,
          ret |-> <<hand.discards[Len(hand.discards)]>>]

\* call_last_discard: pops the last discard; ret is the Option of it.
call_last_discard(hand) ==
    IF hand.discards = <<>>
    THEN [status |-> "ok", st |-> hand, ret |-> <<>>]
    ELSE [status |-> "ok",
          st |-> [hand EXCEPT !.discards = SubSeq(hand.discards, 1, Len(hand.discards) - 1)],
          ret |-> <<hand.discards[Len(hand.discards)]>>]

\* compare_calls with the arms for Pon against Chii exchanged.
compare_calls_chii_over_pon(left_seat, left_call, right_seat, right_call, discarding_seat) ==
    LET l == CallKind(left_call)
        r == CallKind(right_call)
    IN CASE l = "Ron" /\ r = "Ron" ->
              LET left_distance == distance_to(discarding_seat, left_seat)
                  right_distance == distance_to(discarding_seat, right_seat)
              IN IF right_distance < left_distance THEN "Less"
                 ELSE IF right_distance > left_distance THEN "Greater"
                 ELSE "Equal"
         [] l = "Ron" /\ r # "Ron" -> "Greater"
         [] l = "Kan" /\ r = "Ron" -> "Less"
         [] l = "Kan" /\ r = "Kan" -> "panic"
         [] l = "Kan" /\ r \in {"Pon", "Chii"} -> "Greater"
         [] l = "Pon" /\ r = "Ron" -> "Less"
         [] l = "Pon" /\ r = "Kan" -> "Less"
         [] l = "Pon" /\ r = "Pon" -> "panic"
         [] l = "Pon" /\ r = "Chii" -> "Less"
         [] l = "Chii" /\ r = "Chii" -> "panic"
         [] l = "Chii" /\ r # "Chii" -> IF r = "Pon" THEN "Greater" ELSE "Less"

\* compare_calls: "Greater", "Less" or "Equal"; "panic" for the pairs that
\* cannot occur in a match.
compare_calls(left_seat, left_call, right_seat, right_call, discarding_seat) ==
    LET l == CallKind(left_call)
        r == CallKind(right_call)
    IN CASE l = "Ron" /\ r = "Ron" ->
              LET left_distance == distance_to(discarding_seat, left_seat)
                  right_distance == distance_to(discarding_seat, right_seat)
              IN IF right_distance < left_distance THEN "Less"
                 ELSE IF right_distance > left_distance THEN "Greater"
                 ELSE "Equal"
         [] l = "Ron" /\ r # "Ron" -> "Greater"
         [] l = "Kan" /\ r = "Ron" -> "Less"
         [] l = "Kan" /\ r = "Kan" -> "panic"
         [] l = "Kan" /\ r \in {"Pon", "Chii"} -> "Greater"
         [] l = "Pon" /\ r = "Ron" -> "Less"
         [] l = "Pon" /\ r = "Kan" -> "Less"
         [] l = "Pon" /\ r = "Pon" -> "panic"
         [] l = "Pon" /\ r = "Chii" -> "Greater"
         [] l = "Chii" /\ r = "Chii" -> "panic"
         [] l = "Chii" /\ r # "Chii" -> "Less"

\* -------------------------------------------------------------- match state

AwaitingDraw(seat) == [type |-> "AwaitingDraw", seat |-> seat]

AwaitingDiscard(seat) == [type |-> "AwaitingDiscard", seat |-> seat]

AwaitingCalls(discarding_player, discard, calls, waiting) ==
    [type |-> "AwaitingCalls",
     discarding_player |-> discarding_player,
     discard |-> discard,
     calls |-> calls,
     waiting |-> waiting]

EmptyMap == [x \in {} |-> <<>>]

MapRemove(m, k) == [x \in (DOMAIN m) \ {k} |-> m[x]]

MapInsert(m, k, v) == [x \in (DOMAIN m) \cup {k} |-> IF x = k THEN v ELSE m[x]]

\* MatchState::new: the hands are dealt East, South, West, North, each from
\* the tail of what is left; the rest is the wall.
MatchState_new(tiles) ==
    LET e == Hand_new(tiles)
        s == Hand_new(e.ret)
        w == Hand_new(s.ret)
        n == Hand_new(w.ret)
    IN IF Len(tiles) < 4 * HandSize
       THEN [status |-> "panic", st |-> <<>>, ret |-> "unit"]
       ELSE [status |-> "ok",
             st |-> [players |-> [seat \in Wind |->
                                    CASE seat = "East" -> e.st
                                      [] seat = "South" -> s.st
                                      [] seat = "West" -> w.st
                                      [] seat = "North" -> n.st],
                     wall |-> n.ret,
                     turn_state |-> AwaitingDraw("East")],
             ret |-> "unit"]

\* draw_for_player handing out the last tile of the wall without taking it
\* off the wall.
draw_for_player_leaving_wall(ms, seat) ==
    IF ms.turn_state # AwaitingDraw(seat)
    THEN [status |-> "err", st |-> ms, ret |-> "InvalidAction"]
    ELSE IF ms.wall = <<>>
    THEN [status |-> "err", st |-> ms, ret |-> "InsufficientTiles"]
    ELSE LET tile == ms.wall[Len(ms.wall)]
             drawn == Hand_draw_tile(ms.players[seat], tile)
         IN IF drawn.status # "ok"
            THEN [status |-> "err", st |-> ms, ret |-> drawn.ret]
            ELSE [status |-> "ok",
                  st |-> [ms EXCEPT !.players[seat] = drawn.st,
                                    !.turn_state = AwaitingDiscard(seat)],
                  ret |-> tile.id]

\* draw_for_player: ret is the id of the tile drawn.
draw_for_player(ms, seat) ==
    IF ms.turn_state # AwaitingDraw(seat)
    THEN [status |-> "err", st |-> ms, ret |-> "InvalidAction"]
    ELSE IF ms.wall = <<>>
    THEN [status |-> "err", st |-> ms, ret |-> "InsufficientTiles"]
    ELSE LET tile == ms.wall[Len(ms.wall)]
             popped == [ms EXCEPT !.wall = SubSeq(ms.wall, 1, Len(ms.wall) - 1)]
             drawn == Hand_draw_tile(ms.players[seat], tile)
         IN IF drawn.status # "ok"
            THEN [status |-> "err", st |-> popped, ret |-> drawn.ret]
            ELSE [status |-> "ok",
                  st |-> [popped EXCEPT !.players[seat] = drawn.st,
                                        !.turn_state = AwaitingDiscard(seat)],
                  ret |-> tile.id]

\* The waiting map with chii calls for every seat, not only the next one.
waiting_for_chii_from_any_seat(players, seat, tile) ==
    LET calls_of(calling_seat) ==
            find_possible_calls(players[calling_seat], by_id(tile), TRUE)
        can_call == {calling_seat \in Wind \ {seat} : calls_of(calling_seat) # <<>>}
    IN [calling_seat \in can_call |-> calls_of(calling_seat)]

\* The waiting map discard_tile builds: the seats other than the discarding
\* one that can call, each with its calls.
waiting_for(players, seat, tile) ==
    LET calls_of(calling_seat) ==
            find_possible_calls(players[calling_seat], by_id(tile), next(seat) = calling_seat)
        can_call == {calling_seat \in Wind \ {seat} : calls_of(calling_seat) # <<>>}
    IN [calling_seat \in can_call |-> calls_of(calling_seat)]

\* discard_tile handing the next draw to the seat that discarded.
MatchState_discard_tile_same_seat(ms, seat, tile) ==
    IF ms.turn_state # AwaitingDiscard(seat)
    THEN [status |-> "err", st |-> ms, ret |-> "InvalidAction"]
    ELSE LET discarded == Hand_discard_tile(ms.players[seat], tile)
             after == [ms EXCEPT !.players[seat] = discarded.st]
         IN IF discarded.status # "ok"
            THEN [status |-> "err", st |-> after, ret |-> discarded.ret]
            ELSE IF ~KnownId(tile)
            THEN [status |-> "panic", st |-> after, ret |-> "by_id"]
            ELSE IF \E calling_seat \in Wind \ {seat} :
                      find_possible_calls_panics(after.players[calling_seat], by_id(tile))
            THEN [status |-> "panic", st |-> after, ret |-> "assert"]
            ELSE LET waiting == waiting_for(after.players, seat, tile)
                 IN IF DOMAIN waiting # {}
                    THEN [status |-> "ok",
                          st |-> [after EXCEPT
                                    !.turn_state = AwaitingCalls(seat, tile, EmptyMap, waiting)],
                          ret |-> "unit"]
                    ELSE [status |-> "ok",
                          st |-> [after EXCEPT !.turn_state = AwaitingDraw(seat)],
                          ret |-> "unit"]

MatchState_discard_tile(ms, seat, tile) ==
    IF ms.turn_state # AwaitingDiscard(seat)
    THEN [status |-> "err", st |-> ms, ret |-> "InvalidAction"]
    ELSE LET discarded == Hand_discard_tile(ms.players[seat], tile)
             after == [ms EXCEPT !.players[seat] = discarded.st]
         IN IF discarded.status # "ok"
            THEN [status |-> "err", st |-> after, ret |-> discarded.ret]
            ELSE IF ~KnownId(tile)
            THEN [status |-> "panic", st |-> after, ret |-> "by_id"]
            ELSE IF \E calling_seat \in Wind \ {seat} :
                      find_possible_calls_panics(after.players[calling_seat], by_id(tile))
            THEN [status |-> "panic", st |-> after, ret |-> "assert"]
            ELSE LET waiting == waiting_for(after.players, seat, tile)
                 IN IF DOMAIN waiting # {}
                    THEN [status |-> "ok",
                          st |-> [after EXCEPT
                                    !.turn_state = AwaitingCalls(seat, tile, EmptyMap, waiting)],
                          ret |-> "unit"]
                    ELSE [status |-> "ok",
                          st |-> [after EXCEPT !.turn_state = AwaitingDraw(next(seat))],
                          ret |-> "unit"]

\* call_tile removing the seat from waiting before it validates the call.
MatchState_call_tile_removing_first(ms, seat, call) ==
    IF ms.turn_state.type # "AwaitingCalls"
    THEN [status |-> "err", st |-> ms, ret |-> "InvalidAction"]
    ELSE IF seat \notin DOMAIN ms.turn_state.waiting
    THEN [status |-> "err", st |-> ms, ret |-> "CannotCall"]
    ELSE LET possible_calls == ms.turn_state.waiting[seat]
             removed == [ms EXCEPT !.turn_state.waiting = MapRemove(@, seat)]
         IN IF call = Pass
            THEN [status |-> "ok", st |-> removed, ret |-> "unit"]
            ELSE IF call[1] \notin Range(possible_calls)
            THEN [status |-> "err", st |-> removed, ret |-> "InvalidCall"]
            ELSE LET inserted == [removed EXCEPT !.turn_state.calls = MapInsert(@, seat, call[1])]
                 IN IF seat \in DOMAIN ms.turn_state.calls
                    THEN [status |-> "panic", st |-> inserted, ret |-> "assert"]
                    ELSE [status |-> "ok", st |-> inserted, ret |-> "unit"]

\* call_tile taking the call of a waiting seat without looking it up in the
\* seat's possible calls.
MatchState_call_tile_unchecked(ms, seat, call) ==
    IF ms.turn_state.type # "AwaitingCalls"
    THEN [status |-> "err", st |-> ms, ret |-> "InvalidAction"]
    ELSE IF seat \notin DOMAIN ms.turn_state.waiting
    THEN [status |-> "err", st |-> ms, ret |-> "CannotCall"]
    ELSE LET removed == [ms EXCEPT !.turn_state.waiting = MapRemove(@, seat)]
         IN IF call = Pass
            THEN [status |-> "ok", st |-> removed, ret |-> "unit"]
            ELSE [status |-> "ok",
                  st |-> [removed EXCEPT !.turn_state.calls = MapInsert(@, seat, call[1])],
                  ret |-> "unit"]

\* call_tile leaving a seat that passes in waiting.
MatchState_call_tile_keeping_passer(ms, seat, call) ==
    IF ms.turn_state.type # "AwaitingCalls"
    THEN [status |-> "err", st |-> ms, ret |-> "InvalidAction"]
    ELSE IF seat \notin DOMAIN ms.turn_state.waiting
    THEN [status |-> "err", st |-> ms, ret |-> "CannotCall"]
    ELSE LET possible_calls == ms.turn_state.waiting[seat]
             removed == [ms EXCEPT !.turn_state.waiting = MapRemove(@, seat)]
         IN IF call = Pass
            THEN [status |-> "ok", st |-> ms, ret |-> "unit"]
            ELSE IF call[1] \notin Range(possible_calls)
            THEN [status |-> "err", st |-> ms, ret |-> "InvalidCall"]
            ELSE LET inserted == [removed EXCEPT !.turn_state.calls = MapInsert(@, seat, call[1])]
                 IN IF seat \in DOMAIN ms.turn_state.calls
                    THEN [status |-> "panic", st |-> inserted, ret |-> "assert"]
                    ELSE [status |-> "ok", st |-> inserted, ret |-> "unit"]

\* call_tile recording only the first call of a call phase: a later call
\* takes its seat out of waiting without being recorded.
MatchState_call_tile_first_come(ms, seat, call) ==
    IF ms.turn_state.type # "AwaitingCalls"
    THEN [status |-> "err", st |-> ms, ret |-> "InvalidAction"]
    ELSE IF seat \notin DOMAIN ms.turn_state.waiting
    THEN [status |-> "err", st |-> ms, ret |-> "CannotCall"]
    ELSE LET possible_calls == ms.turn_state.waiting[seat]
             removed == [ms EXCEPT !.turn_state.waiting = MapRemove(@, seat)]
         IN IF call = Pass \/ DOMAIN ms.turn_state.calls # {}
            THEN [status |-> "ok", st |-> removed, ret |-> "unit"]
            ELSE IF call[1] \notin Range(possible_calls)
            THEN [status |-> "err", st |-> ms, ret |-> "InvalidCall"]
            ELSE [status |-> "ok",
                  st |-> [removed EXCEPT !.turn_state.calls = MapInsert(@, seat, call[1])],
                  ret |-> "unit"]

\* MatchState::call_tile (the controller and the tests name it request_call).
MatchState_call_tile(ms, seat, call) ==
    IF ms.turn_state.type # "AwaitingCalls"
    THEN [status |-> "err", st |-> ms, ret |-> "InvalidAction"]
    ELSE IF seat \notin DOMAIN ms.turn_state.waiting
    THEN [status |-> "err", st |-> ms, ret |-> "CannotCall"]
    ELSE LET possible_calls == ms.turn_state.waiting[seat]
             removed == [ms EXCEPT !.turn_state.waiting = MapRemove(@, seat)]
         IN IF call = Pass
            THEN [status |-> "ok", st |-> removed, ret |-> "unit"]
            ELSE IF call[1] \notin Range(possible_calls)
            THEN [status |-> "err", st |-> ms, ret |-> "InvalidCall"]
            ELSE LET inserted == [removed EXCEPT !.turn_state.calls = MapInsert(@, seat, call[1])]
                 IN IF seat \in DOMAIN ms.turn_state.calls
                    THEN [status |-> "panic", st |-> inserted, ret |-> "assert"]
                    ELSE [status |-> "ok", st |-> inserted, ret |-> "unit"]

\* The orders in which a HashMap with the given keys can be iterated.
IterationOrders(keys) ==
    {order \in [1 .. Cardinality(keys) -> keys] :
        \A i, j \in 1 .. Cardinality(keys) : i # j => order[i] # order[j]}

\* Iterator::max_by over the calls in the given order: the accumulated entry
\* is kept only when it compares Greater.  <<>> for no calls, <<"panic">> when
\* compare_calls panics, <<seat>> otherwise.
RECURSIVE max_by(_, _, _, _)
max_by(calls, order, discarding_player, acc) ==
    IF order = <<>> THEN acc
    ELSE IF acc = <<>> THEN max_by(calls, Tail(order), discarding_player, <<Head(order)>>)
    ELSE LET ordering == compare_calls(acc[1], calls[acc[1]], Head(order), calls[Head(order)],
                                       discarding_player)
         IN IF ordering = "panic" THEN <<"panic">>
            ELSE IF ordering = "Greater"
            THEN max_by(calls, Tail(order), discarding_player, acc)
            ELSE max_by(calls, Tail(order), discarding_player, <<Head(order)>>)

\* decide_call, with the calls iterated in the given order: ret is the Option
\* of the winning [seat, call].
decide_call(ms, order) ==
    IF ms.turn_state.type # "AwaitingCalls"
    THEN [status |-> "err", st |-> ms, ret |-> "InvalidAction"]
    ELSE IF DOMAIN ms.turn_state.waiting # {}
    THEN [status |-> "err", st |-> ms, ret |-> "StillWaiting"]
    ELSE LET calls == ms.turn_state.calls
             discard_id == ms.turn_state.discard
             discarding_player == ms.turn_state.discarding_player
             max == max_by(calls, order, discarding_player, <<>>)
         IN IF max = <<"panic">>
            THEN [status |-> "panic", st |-> ms, ret |-> "compare_calls"]
            ELSE IF max = <<>>
            THEN [status |-> "ok",
                  st |-> [ms EXCEPT !.turn_state = AwaitingDraw(next(discarding_player))],
                  ret |-> <<>>]
            ELSE LET seat == max[1]
                     call == calls[seat]
                     called == call_last_discard(ms.players[discarding_player])
                     popped == [ms EXCEPT !.players[discarding_player] = called.st]
                 IN IF called.ret = <<>>
                    THEN [status |-> "panic", st |-> popped, ret |-> "expect"]
                    ELSE IF called.ret[1].id # discard_id
                    THEN [status |-> "panic", st |-> popped, ret |-> "assert_eq"]
                    ELSE LET applied == Hand_call_tile(popped.players[seat], called.ret[1], call)
                         IN IF applied.status = "panic"
                            THEN [status |-> "panic", st |-> popped, ret |-> applied.ret]
                            ELSE \* the Result of call_tile is dropped
                                 [status |-> "ok",
                                  st |-> [popped EXCEPT
                                            !.players[seat] = applied.st,
                                            !.turn_state = AwaitingDraw(next(seat))],
                                  ret |-> <<[seat |-> seat, call |-> call]>>]

\* ------------------------------------------------------------- local state

\* Width of RemoteHand.tiles, a u8.
U8 == 256

\* RemoteHand::new.
RemoteHand_new ==
    [tiles |-> HandSize,
     has_current_draw |-> FALSE,
     open_chows |-> <<>>,
     open_pongs |-> <<>>,
     open_kongs |-> <<>>,
     closed_kongs |-> <<>>,
     discards |-> <<>>]

\* HandState::to_local.
to_local(hand, is_local_player) ==
    IF is_local_player
    THEN [kind |-> "Local", hand |-> hand]
    ELSE [kind |-> "Remote",
          hand |-> [tiles |-> Len(hand.tiles) % U8,
                    has_current_draw |-> hand.current_draw # <<>>,
                    open_chows |-> hand.open_chows,
                    open_pongs |-> hand.open_pongs,
                    open_kongs |-> hand.open_kongs,
                    closed_kongs |-> hand.closed_kongs,
                    discards |-> hand.discards]]

\* tile::instance_by_id: the instance of TILE_SET with the id.
instance_by_id(id) == [id |-> id, tile |-> by_id(id)]

\* tile::all_instances_of: the four instances of a tile value, in TILE_SET
\* order.
all_instances_of(tile) ==
    LET found == FilterByTile(TILE_SET, tile)
    IN <<found[1], found[2], found[3], found[4]>>

RemoteHand_draw_tile(hand) ==
    IF hand.has_current_draw
    THEN [status |-> "err", st |-> hand, ret |-> "ConsistencyError"]
    ELSE [status |-> "ok", st |-> [hand EXCEPT !.has_current_draw = TRUE], ret |-> "unit"]

RemoteHand_call_tile(hand, discard, call) ==
    CASE CallKind(call) = "Chii" ->
           IF ~KnownId(call[2]) \/ ~KnownId(call[3])
           THEN [status |-> "panic", st |-> hand, ret |-> "by_id"]
           ELSE LET tile_a == instance_by_id(call[2])
                    tile_b == instance_by_id(call[3])
                IN IF ~is_chow(discard.tile, tile_a.tile, tile_b.tile)
                   THEN [status |-> "err", st |-> hand, ret |-> "ConsistencyError"]
                   ELSE [status |-> "ok",
                         st |-> [hand EXCEPT
                                   !.tiles = (@ - 2) % U8,
                                   !.open_chows = Append(@, <<discard, tile_a, tile_b>>)],
                         ret |-> "unit"]
      [] CallKind(call) = "Pon" ->
           IF ~KnownId(call[2]) \/ ~KnownId(call[3])
           THEN [status |-> "panic", st |-> hand, ret |-> "by_id"]
           ELSE LET tile_a == instance_by_id(call[2])
                    tile_b == instance_by_id(call[3])
                IN IF ~(discard.tile = tile_a.tile /\ discard.tile = tile_b.tile)
                   THEN [status |-> "err", st |-> hand, ret |-> "ConsistencyError"]
                   ELSE [status |-> "ok",
                         st |-> [hand EXCEPT
                                   !.tiles = (@ - 2) % U8,
                                   !.open_pongs = Append(@, <<discard, tile_a, tile_b>>)],
                         ret |-> "unit"]
      [] CallKind(call) = "Kan" ->
           LET tiles == all_instances_of(call[2])
               counted == [hand EXCEPT !.tiles = (@ - 3) % U8]
           IN IF tiles[1].tile # discard.tile
              THEN [status |-> "err", st |-> counted, ret |-> "ConsistencyError"]
              ELSE [status |-> "ok",
                    st |-> [counted EXCEPT !.open_kongs = Append(@, tiles)],
                    ret |-> "unit"]
      [] CallKind(call) = "Ron" -> [status |-> "panic", st |-> hand, ret |-> "todo"]

\* LocalHand::draw_tile is not used by LocalState; LocalHand::discard_tile is.
LocalHand_discard_tile(lh, id) ==
    IF lh.kind = "Local"
    THEN LET r == Hand_discard_tile(lh.hand, id)
         IN [status |-> r.status, st |-> [lh EXCEPT !.hand = r.st], ret |-> r.ret]
    ELSE IF ~lh.hand.has_current_draw
    THEN [status |-> "err", st |-> lh, ret |-> "ConsistencyError"]
    ELSE IF ~KnownId(id)
    THEN [status |-> "panic", st |-> lh, ret |-> "by_id"]
    ELSE [status |-> "ok",
          st |-> [lh EXCEPT !.hand.has_current_draw = FALSE,
                            !.hand.discards = Append(@, [id |-> id, tile |-> by_id(id)])],
          ret |-> "unit"]

\* LocalHand::last_discard: the Option of the id of the last discard.
last_discard(lh) ==
    IF lh.hand.discards = <<>> THEN <<>>
    ELSE <<lh.hand.discards[Len(lh.hand.discards)].id>>

LocalHand_call_last_discard(lh) ==
    LET r == call_last_discard(lh.hand)
    IN [status |-> r.status, st |-> [lh EXCEPT !.hand = r.st], ret |-> r.ret]

LocalHand_call_tile(lh, discard, call) ==
    LET r == IF lh.kind = "Local"
             THEN Hand_call_tile(lh.hand, discard, call)
             ELSE RemoteHand_call_tile(lh.hand, discard, call)
    IN [status |-> r.status, st |-> [lh EXCEPT !.hand = r.st], ret |-> r.ret]

LocalAwaitingCalls(discarding_player, discard, calls) ==
    [type |-> "AwaitingCalls",
     discarding_player |-> discarding_player,
     discard |-> discard,
     calls |-> calls]

\* LocalState::decide_call: call is the Option of a FinalCall
\* [caller, called_from, discard, winning_call].
LocalState_decide_call(ls, call) ==
    IF ls.turn_state.type # "AwaitingCalls"
    THEN [status |-> "err", st |-> ls, ret |-> "ConsistencyError"]
    ELSE IF call = <<>>
    THEN [status |-> "ok",
          st |-> [ls EXCEPT !.turn_state = AwaitingDraw(next(ls.turn_state.discarding_player))],
          ret |-> "unit"]
    ELSE LET c == call[1]
             discard == ls.turn_state.discard
         IN IF ls.turn_state.discarding_player # c.called_from
            THEN [status |-> "err", st |-> ls, ret |-> "ConsistencyError"]
            ELSE IF discard # c.discard
            THEN [status |-> "err", st |-> ls, ret |-> "ConsistencyError"]
            ELSE IF c.caller = ls.seat /\ c.winning_call \notin Range(ls.turn_state.calls)
            THEN [status |-> "err", st |-> ls, ret |-> "ConsistencyError"]
            ELSE IF last_discard(ls.players[c.called_from]) # <<discard>>
            THEN [status |-> "err", st |-> ls, ret |-> "ConsistencyError"]
            ELSE LET called == LocalHand_call_last_discard(ls.players[c.called_from])
                     popped == [ls EXCEPT !.players[c.called_from] = called.st]
                     applied == LocalHand_call_tile(popped.players[c.caller], called.ret[1],
                                                    c.winning_call)
                     melded == [popped EXCEPT !.players[c.caller] = applied.st]
                 IN IF applied.status # "ok"
                    THEN [status |-> applied.status, st |-> melded, ret |-> applied.ret]
                    ELSE [status |-> "ok",
                          st |-> [melded EXCEPT !.turn_state = AwaitingDraw(next(c.caller))],
                          ret |-> "unit"]

draw_local_tile(ls, draw_id) ==
    IF ls.turn_state # AwaitingDraw(ls.seat)
    THEN [status |-> "err", st |-> ls, ret |-> "ConsistencyError"]
    ELSE IF ~KnownId(draw_id)
    THEN [status |-> "panic", st |-> ls, ret |-> "by_id"]
    ELSE IF ls.players[ls.seat].kind # "Local"
    THEN [status |-> "panic", st |-> ls, ret |-> "unwrap"]
    ELSE LET drawn == Hand_draw_tile(ls.players[ls.seat].hand, instance_by_id(draw_id))
         IN IF drawn.status # "ok"
            THEN [status |-> "err", st |-> ls, ret |-> drawn.ret]
            ELSE [status |-> "ok",
                  st |-> [ls EXCEPT !.players[ls.seat].hand = drawn.st,
                                    !.turn_state = AwaitingDiscard(ls.seat)],
                  ret |-> "unit"]

draw_remote_tile(ls, seat) ==
    IF ls.turn_state # AwaitingDraw(seat)
    THEN [status |-> "err", st |-> ls, ret |-> "ConsistencyError"]
    ELSE IF ls.players[seat].kind # "Remote"
    THEN [status |-> "panic", st |-> ls, ret |-> "unwrap"]
    ELSE LET drawn == RemoteHand_draw_tile(ls.players[seat].hand)
         IN IF drawn.status # "ok"
            THEN [status |-> "err", st |-> ls, ret |-> drawn.ret]
            ELSE [status |-> "ok",
                  st |-> [ls EXCEPT !.players[seat].hand = drawn.st,
                                    !.turn_state = AwaitingDiscard(seat)],
                  ret |-> "unit"]

\* discard_tile moving on to the next seat's draw when the local player has
\* no call to make.
LocalState_discard_tile_skipping_calls(ls, discarding_player, discard) ==
    IF ls.turn_state # AwaitingDiscard(discarding_player)
    THEN [status |-> "err", st |-> ls, ret |-> "ConsistencyError"]
    ELSE LET discarded == LocalHand_discard_tile(ls.players[discarding_player], discard)
             after == [ls EXCEPT !.players[discarding_player] = discarded.st]
             calls == IF discarding_player = ls.seat \/ ~KnownId(discard) THEN <<>>
                      ELSE find_possible_calls(after.players[ls.seat].hand, by_id(discard),
                                               next(discarding_player) = ls.seat)
         IN IF discarded.status # "ok"
            THEN [status |-> discarded.status, st |-> after, ret |-> discarded.ret]
            ELSE [status |-> "ok",
                  st |-> [after EXCEPT
                            !.turn_state =
                                IF calls = <<>> THEN AwaitingDraw(next(discarding_player))
                                ELSE LocalAwaitingCalls(discarding_player, discard, calls)],
                  ret |-> "unit"]

\* LocalState::discard_tile.
LocalState_discard_tile(ls, discarding_player, discard) ==
    IF ls.turn_state # AwaitingDiscard(discarding_player)
    THEN [status |-> "err", st |-> ls, ret |-> "ConsistencyError"]
    ELSE LET discarded == LocalHand_discard_tile(ls.players[discarding_player], discard)
             after == [ls EXCEPT !.players[discarding_player] = discarded.st]
         IN IF discarded.status # "ok"
            THEN [status |-> discarded.status, st |-> after, ret |-> discarded.ret]
            ELSE IF discarding_player = ls.seat
            THEN [status |-> "ok",
                  st |-> [after EXCEPT
                            !.turn_state = LocalAwaitingCalls(discarding_player, discard, <<>>)],
                  ret |-> "unit"]
            ELSE IF after.players[ls.seat].kind # "Local"
            THEN [status |-> "panic", st |-> after, ret |-> "unwrap"]
            ELSE IF ~KnownId(discard)
            THEN [status |-> "panic", st |-> after, ret |-> "by_id"]
            ELSE IF find_possible_calls_panics(after.players[ls.seat].hand, by_id(discard))
            THEN [status |-> "panic", st |-> after, ret |-> "assert"]
            ELSE [status |-> "ok",
                  st |-> [after EXCEPT
                            !.turn_state = LocalAwaitingCalls(discarding_player, discard,
                                find_possible_calls(after.players[ls.seat].hand, by_id(discard),
                                                    next(discarding_player) = ls.seat))],
                  ret |-> "unit"]

\* ------------------------------------------------------------------- events

LocalDraw(seat, tile) == [type |-> "LocalDraw", seat |-> seat, tile |-> tile]

RemoteDraw(seat) == [type |-> "RemoteDraw", seat |-> seat]

TileDiscarded(seat, tile, calls) ==
    [type |-> "TileDiscarded", seat |-> seat, tile |-> tile, calls |-> calls]

CallEvent(final_call) == [type |-> "Call", call |-> final_call]

PassEvent == [type |-> "Pass"]

MatchEndedEvent == [type |-> "MatchEnded"]

NoEvent == [type |-> "None"]

FinalCall(caller, called_from, discard, winning_call) ==
    [caller |-> caller,
     called_from |-> called_from,
     discard |-> discard,
     winning_call |-> winning_call]

\* handle_event taking a LocalDraw for any seat as the local player's draw.
handle_event_any_local_draw(ls, event) ==
    CASE event.type = "LocalDraw" -> draw_local_tile(ls, event.tile)
      [] event.type = "RemoteDraw" ->
           IF event.seat = ls.seat
           THEN [status |-> "err", st |-> ls, ret |-> "ConsistencyError"]
           ELSE draw_remote_tile(ls, event.seat)
      [] event.type = "TileDiscarded" -> LocalState_discard_tile(ls, event.seat, event.tile)
      [] event.type = "Call" -> LocalState_decide_call(ls, <<event.call>>)
      [] event.type = "Pass" -> LocalState_decide_call(ls, <<>>)
      [] event.type = "MatchEnded" -> [status |-> "ok", st |-> ls, ret |-> "unit"]

\* LocalState::handle_event.
handle_event(ls, event) ==
    CASE event.type = "LocalDraw" ->
           IF event.seat # ls.seat
           THEN [status |-> "err", st |-> ls, ret |-> "ConsistencyError"]
           ELSE draw_local_tile(ls, event.tile)
      [] event.type = "RemoteDraw" ->
           IF event.seat = ls.seat
           THEN [status |-> "err", st |-> ls, ret |-> "ConsistencyError"]
           ELSE draw_remote_tile(ls, event.seat)
      [] event.type = "TileDiscarded" -> LocalState_discard_tile(ls, event.seat, event.tile)
      [] event.type = "Call" -> LocalState_decide_call(ls, <<event.call>>)
      [] event.type = "Pass" -> LocalState_decide_call(ls, <<>>)
      [] event.type = "MatchEnded" -> [status |-> "ok", st |-> ls, ret |-> "unit"]

\* --------------------------------------------------------------- projection

\* MatchState::local_state_for_player: every hand through to_local, the turn
\* state with waiting and the other seats' calls stripped.
local_turn_state_for_player(turn_state, seat) ==
    IF turn_state.type = "AwaitingCalls"
    THEN LocalAwaitingCalls(turn_state.discarding_player, turn_state.discard,
                            IF seat \in DOMAIN turn_state.waiting
                            THEN turn_state.waiting[seat]
                            ELSE <<>>)
    ELSE turn_state

local_state_for_player(ms, seat) ==
    [seat |-> seat,
     players |-> [hand_seat \in Wind |-> to_local(ms.players[hand_seat], hand_seat = seat)],
     turn_state |-> local_turn_state_for_player(ms.turn_state, seat)]

\* --------------------------------------------------------------- controller

\* broadcast_draw telling every client the tile drawn.
broadcast_draw_showing_tile(client_seat, seat, tile) == LocalDraw(seat, tile)

\* MatchController::broadcast_draw: the event for one client.
broadcast_draw(client_seat, seat, tile) ==
    IF client_seat = seat THEN LocalDraw(seat, tile) ELSE RemoteDraw(seat)

\* What MatchState::discard_tile hands the controller: the seats that can
\* call, each with its calls.
calling_players_of(turn_state) ==
    IF turn_state.type = "AwaitingCalls" THEN turn_state.waiting ELSE EmptyMap

\* discard_tile sending a seat that cannot call the calls of one that can.
discard_event_sharing_calls(client_seat, player, tile, calling_players) ==
    TileDiscarded(player, tile,
                  IF client_seat \in DOMAIN calling_players
                  THEN calling_players[client_seat]
                  ELSE IF DOMAIN calling_players # {}
                  THEN calling_players[CHOOSE seat \in DOMAIN calling_players : TRUE]
                  ELSE <<>>)

\* MatchController::discard_tile: the TileDiscarded event for one client.
discard_event(client_seat, player, tile, calling_players) ==
    TileDiscarded(player, tile,
                  IF client_seat \in DOMAIN calling_players
                  THEN calling_players[client_seat]
                  ELSE <<>>)

\* MatchController::call_tile: the event broadcast for the outcome of
\* decide_call.
decide_event(winning_call, discarding_player, discard) ==
    IF winning_call = <<>>
    THEN PassEvent
    ELSE CallEvent(FinalCall(winning_call[1].seat, discarding_player, discard,
                             winning_call[1].call))

\* A seat of the clients map without an entry, and the entry of a seat that
\* start_match filled with a DummyClient.
NoClient == "none"

DummyProxy == "dummy"

\* The messages of the controller's mailbox.  from names the sender; the
\* handlers take no sender argument and never read it.
JoinMsg(controller, seat) ==
    [type |-> "join", from |-> controller, seat |-> seat, tile |-> 0, call |-> Pass]

StartMatchMsg ==
    [type |-> "start_match", from |-> "self", seat |-> "East", tile |-> 0, call |-> Pass]

DiscardTileMsg(from, player, tile) ==
    [type |-> "discard_tile", from |-> from, seat |-> player, tile |-> tile, call |-> Pass]

CallTileMsg(from, player, call) ==
    [type |-> "call_tile", from |-> from, seat |-> player, tile |-> 0, call |-> call]

\* Events sent to each seat by one handler, in the order sent.
NoEvents == [seat \in Wind |-> <<>>]

ThenEvents(first, second) == [seat \in Wind |-> first[seat] \o second[seat]]

\* MatchController::broadcast: the event goes to every entry of clients.
broadcast(clients, event) ==
    [seat \in Wind |-> IF clients[seat] = NoClient THEN <<>> ELSE <<event>>]

\* MatchController::broadcast_draw over every entry of clients.
broadcast_draw_to(clients, seat, tile) ==
    [client_seat \in Wind |->
        IF clients[client_seat] = NoClient THEN <<>>
        ELSE <<broadcast_draw(client_seat, seat, tile)>>]

\* What a handler of the controller leaves: the controller's fields, the events
\* sent to each seat, the messages sent to itself, the seats given a dummy and
\* the LocalState returned.
Handled(status, cs, events, self, spawned, reply) ==
    [status |-> status, st |-> cs, events |-> events, self |-> self,
     spawned |-> spawned, reply |-> reply]

\* The end of start_match, discard_tile and call_tile: the draw for the next
\* seat has returned drawn; on success the draw is broadcast after the events
\* sent so far, on failure the handler ends with the given status.
draw_then_broadcast(cs, seat, sent_so_far, spawned, drawn, failure) ==
    IF drawn.status # "ok"
    THEN Handled(failure, [cs EXCEPT !.state = drawn.st], sent_so_far, <<>>, spawned, <<>>)
    ELSE Handled("ok", [cs EXCEPT !.state = drawn.st],
                 ThenEvents(sent_so_far, broadcast_draw_to(cs.clients, seat, drawn.ret)),
                 <<>>, spawned, <<>>)

\* MatchController::start_match.
Controller_start_match(cs) ==
    LET spawned == {seat \in Wind : cs.clients[seat] = NoClient}
        filled == [cs EXCEPT !.clients = [seat \in Wind |->
                                            IF seat \in spawned THEN DummyProxy ELSE @[seat]]]
    IN IF cs.state.turn_state.type # "AwaitingDraw"
       THEN Handled("panic", filled, NoEvents, <<>>, spawned, <<>>)
       ELSE draw_then_broadcast(filled, cs.state.turn_state.seat, NoEvents, spawned,
                                draw_for_player(cs.state, cs.state.turn_state.seat),
                                "panic")

\* join running the match start itself instead of sending it to its mailbox.
Controller_join_starting_at_once(cs, controller, seat) ==
    IF cs.clients[seat] # NoClient
    THEN Handled("err", cs, NoEvents, <<>>, {}, <<>>)
    ELSE LET joined == [cs EXCEPT !.clients[seat] = controller]
             len == Cardinality({s \in Wind : joined.clients[s] # NoClient})
             started == Controller_start_match(joined)
         IN IF len % U8 = cs.num_players
            THEN Handled(started.status, started.st, started.events, <<>>, started.spawned,
                         <<local_state_for_player(started.st.state, seat)>>)
            ELSE Handled("ok", joined, NoEvents, <<>>, {},
                         <<local_state_for_player(cs.state, seat)>>)

\* join giving the seat to the controller that asks, whoever holds it.
Controller_join_replacing(cs, controller, seat) ==
    LET joined == [cs EXCEPT !.clients[seat] = controller]
        len == Cardinality({s \in Wind : joined.clients[s] # NoClient})
    IN Handled("ok", joined, NoEvents,
               IF len % U8 = cs.num_players THEN <<StartMatchMsg>> ELSE <<>>,
               {},
               <<local_state_for_player(cs.state, seat)>>)

\* MatchController::join.
Controller_join(cs, controller, seat) ==
    IF cs.clients[seat] # NoClient
    THEN Handled("err", cs, NoEvents, <<>>, {}, <<>>)
    ELSE LET joined == [cs EXCEPT !.clients[seat] = controller]
             len == Cardinality({s \in Wind : joined.clients[s] # NoClient})
         IN Handled("ok", joined, NoEvents,
                    IF len % U8 = cs.num_players THEN <<StartMatchMsg>> ELSE <<>>,
                    {},
                    <<local_state_for_player(cs.state, seat)>>)

\* The TileDiscarded events of discard_tile: the seats are visited in the
\* order of Wind::iter() and the first one without a client fails the unwrap.
discard_events(clients, player, tile, calling_players) ==
    LET index(seat) == CHOOSE i \in 1 .. 4 : WindOrder[i] = seat
        reached(seat) == \A i \in 1 .. index(seat) : clients[WindOrder[i]] # NoClient
    IN [seat \in Wind |->
          IF reached(seat) THEN <<discard_event(seat, player, tile, calling_players)>>
          ELSE <<>>]

\* discard_tile when no seat can call: decide_call has returned decided; the
\* pass is broadcast and the next seat draws.
discard_tile_uncalled(cs, player, sent_so_far, decided) ==
    IF decided.status # "ok"
    THEN Handled(decided.status, [cs EXCEPT !.state = decided.st], sent_so_far,
                 <<>>, {}, <<>>)
    ELSE draw_then_broadcast(cs, next(player),
                             ThenEvents(sent_so_far, broadcast(cs.clients, PassEvent)), {},
                             draw_for_player(decided.st, next(player)),
                             "err")

\* discard_tile once MatchState::discard_tile has returned discarded.
discard_tile_discarded(cs, player, tile, discarded) ==
    LET after == [cs EXCEPT !.state = discarded.st]
        calling_players == calling_players_of(discarded.st.turn_state)
        sent_so_far == discard_events(cs.clients, player, tile, calling_players)
    IN IF discarded.status # "ok"
       THEN Handled(discarded.status, after, NoEvents, <<>>, {}, <<>>)
       ELSE IF \E seat \in Wind : cs.clients[seat] = NoClient
       THEN Handled("panic", after, sent_so_far, <<>>, {}, <<>>)
       ELSE IF DOMAIN calling_players # {}
       THEN Handled("ok", after, sent_so_far, <<>>, {}, <<>>)
       ELSE discard_tile_uncalled(cs, player, sent_so_far, decide_call(discarded.st, <<>>))

\* MatchController::discard_tile.
Controller_discard_tile(cs, player, tile) ==
    IF cs.state.wall = <<>>
    THEN Handled("err", cs, NoEvents, <<>>, {}, <<>>)
    ELSE discard_tile_discarded(cs, player, tile,
                                MatchState_discard_tile(cs.state, player, tile))

\* MatchState::request_call: call_tile, telling the controller whether every
\* waiting seat has answered.
call_requested(r) ==
    [status |-> r.status, st |-> r.st,
     ret |-> r.status = "ok" /\ DOMAIN r.st.turn_state.waiting = {}]

request_call(ms, seat, call) == call_requested(MatchState_call_tile(ms, seat, call))

\* call_tile once decide_call has returned decided for the discard of turn.
call_tile_decided(cs, turn, decided) ==
    LET outcome == broadcast(cs.clients,
                             decide_event(decided.ret, turn.discarding_player, turn.discard))
    IN IF decided.status # "ok"
       THEN Handled(decided.status, [cs EXCEPT !.state = decided.st], NoEvents,
                    <<>>, {}, <<>>)
       ELSE IF decided.st.turn_state.type # "AwaitingDraw"
       THEN Handled("panic", [cs EXCEPT !.state = decided.st], outcome, <<>>, {}, <<>>)
       ELSE draw_then_broadcast(cs, decided.st.turn_state.seat, outcome, {},
                                draw_for_player(decided.st, decided.st.turn_state.seat),
                                "err")

\* call_tile telling every client of a pass each time a seat answers while
\* others are still waiting.
call_tile_requested_announcing(cs, order, requested) ==
    IF requested.status # "ok"
    THEN Handled(requested.status, [cs EXCEPT !.state = requested.st], NoEvents,
                 <<>>, {}, <<>>)
    ELSE IF ~requested.ret
    THEN Handled("ok", [cs EXCEPT !.state = requested.st], broadcast(cs.clients, PassEvent),
                 <<>>, {}, <<>>)
    ELSE call_tile_decided(cs, requested.st.turn_state, decide_call(requested.st, order))

\* call_tile once request_call has returned requested; decide_call iterates
\* the calls in the given order.
call_tile_requested(cs, order, requested) ==
    IF requested.status # "ok"
    THEN Handled(requested.status, [cs EXCEPT !.state = requested.st], NoEvents,
                 <<>>, {}, <<>>)
    ELSE IF ~requested.ret
    THEN Handled("ok", [cs EXCEPT !.state = requested.st], NoEvents, <<>>, {}, <<>>)
    ELSE call_tile_decided(cs, requested.st.turn_state, decide_call(requested.st, order))

\* MatchController::call_tile.
Controller_call_tile(cs, player, call, order) ==
    call_tile_requested(cs, order, request_call(cs.state, player, call))

\* send_event answering the draw of any seat with a discard of its own.
DummyClient_answer_any_draw(from, seat, applied) ==
    IF applied.status # "ok"
    THEN [status |-> "panic", st |-> applied.st, requests |-> <<>>]
    ELSE IF applied.st.turn_state.type = "AwaitingDiscard"
    THEN IF applied.st.players[seat].hand.tiles = <<>>
         THEN [status |-> "panic", st |-> applied.st, requests |-> <<>>]
         ELSE [status |-> "ok", st |-> applied.st,
               requests |-> <<DiscardTileMsg(from, seat,
                                             applied.st.players[seat].hand.tiles[1].id)>>]
    ELSE IF applied.st.turn_state.type = "AwaitingCalls" /\ applied.st.turn_state.calls # <<>>
    THEN [status |-> "ok", st |-> applied.st,
          requests |-> <<CallTileMsg(from, seat, <<applied.st.turn_state.calls[1]>>)>>]
    ELSE [status |-> "ok", st |-> applied.st, requests |-> <<>>]

\* DummyClient::send_event once handle_event has returned: the unwrap panics
\* on an error; otherwise the dummy answers with the first tile of its hand
\* or the first call it can make.  requests are the messages it sends to the
\* controller; their Results are dropped.
DummyClient_answer(from, seat, applied) ==
    IF applied.status # "ok"
    THEN [status |-> "panic", st |-> applied.st, requests |-> <<>>]
    ELSE IF applied.st.turn_state.type = "AwaitingDiscard" /\ applied.st.turn_state.seat = seat
    THEN IF applied.st.players[seat].hand.tiles = <<>>
         THEN [status |-> "panic", st |-> applied.st, requests |-> <<>>]
         ELSE [status |-> "ok", st |-> applied.st,
               requests |-> <<DiscardTileMsg(from, seat,
                                             applied.st.players[seat].hand.tiles[1].id)>>]
    ELSE IF applied.st.turn_state.type = "AwaitingCalls" /\ applied.st.turn_state.calls # <<>>
    THEN [status |-> "ok", st |-> applied.st,
          requests |-> <<CallTileMsg(from, seat, <<applied.st.turn_state.calls[1]>>)>>]
    ELSE [status |-> "ok", st |-> applied.st, requests |-> <<>>]

\* DummyClient::send_event.
DummyClient_send_event(from, seat, state, event) ==
    DummyClient_answer(from, seat, handle_event(state, event))

\* -------------------------------------------------------------------- decks

\* The instance of a tile value with the given copy number.
Inst(tile, copy) == TILE_SET[tile * NumCopies + copy + 1]

Coins(n) == Simple(0, n)
Bamboo(n) == Simple(1, n)
Characters(n) == Simple(2, n)
White == Dragon(0)
Green == Dragon(1)
Red == Dragon(2)

\* Tile values of which every hand below holds one copy: no two of them, with
\* any discard, make a meld.
Filler ==
    <<WindTile(0), WindTile(1), WindTile(2), WindTile(3), White,
      Bamboo(1), Bamboo(4), Bamboo(7), Characters(1), Characters(4)>>

FillerHand(copy, n) == [i \in 1 .. n |-> Inst(Filler[i], copy)]

\* The order in which the wall's tiles are drawn.
DrawOrder(first) ==
    <<first, Inst(Characters(7), 0), Inst(Coins(8), 0), Inst(Characters(7), 1),
      Inst(Coins(8), 1), Inst(Characters(4), 2), Inst(Characters(4), 3)>>

Reverse(s) == [i \in 1 .. Len(s) |-> s[Len(s) + 1 - i]]

WallOf(first) == Reverse(SubSeq(DrawOrder(first), 1, MaxWall))

EastHand == <<Inst(Coins(3), 0), Inst(Red, 0), Inst(Green, 0)>> \o FillerHand(0, 10)

SouthHand == <<Inst(Coins(4), 0), Inst(Coins(5), 0), Inst(Coins(4), 1)>> \o FillerHand(1, 10)

NorthHand == <<Inst(Green, 3), Inst(Red, 1), Inst(Red, 2), Inst(Red, 3)>> \o FillerHand(3, 9)

\* West holds a pair of Coins 3 and a pair of Green; the fourth Coins 3 is the
\* first tile drawn.
DeckPon ==
    WallOf(Inst(Coins(3), 3))
    \o NorthHand
    \o (<<Inst(Coins(3), 1), Inst(Coins(3), 2), Inst(Green, 1), Inst(Green, 2)>>
        \o FillerHand(2, 9))
    \o SouthHand
    \o EastHand

\* West holds three Coins 3; the second Green is the first tile drawn.
DeckKan ==
    WallOf(Inst(Green, 1))
    \o NorthHand
    \o (<<Inst(Coins(3), 1), Inst(Coins(3), 2), Inst(Coins(3), 3), Inst(Green, 2)>>
        \o FillerHand(2, 9))
    \o SouthHand
    \o EastHand

\* The shuffled tile vectors a match is created with.
Decks == {DeckPon, DeckKan}

\* ------------------------------------------------------------ state machine

VARIABLES tileset, players, wall, turn_state, panicked, locals, last_event, last_op

\* The MatchController and the actors around it: its clients map and
\* num_players, its mailbox, the answers of each seat's client that have not
\* reached the mailbox yet (outbox), the events ever sent to each seat (sent),
\* the outcome of the last message the controller handled, the seats whose
\* client stopped on an error, the clients that have asked to join and the
\* number of events answered otherwise than a dummy would.
VARIABLES clients, num_players, mailbox, outbox, sent, handled, crashed, joining, other_answers

cvars == <<clients, num_players, mailbox, outbox, sent, handled, crashed, joining,
           other_answers>>

\* A HandState on its own and the last operation applied to it, with its
\* arguments and its outcome: pre is the hand before it, tile, inst, call, id
\* and chii are its arguments (for is_chow, tile holds the three values) and
\* status, ret and calls are what it returned.
VARIABLES hand_state, hand_op

vars == <<tileset, players, wall, turn_state, panicked, locals, last_event, last_op, cvars,
          hand_state, hand_op>>

\* No operation applied yet to the hand.
NoHandOp(h) ==
    [op |-> "new", pre |-> h, status |-> "ok", ret |-> "unit", tile |-> <<>>, inst |-> <<>>,
     call |-> Pass, id |-> <<>>, chii |-> FALSE, calls |-> <<>>]

NoMsg == [type |-> "none", from |-> "self", seat |-> "East", tile |-> 0, call |-> Pass]

\* A controller that has handled nothing.
NotHandled(ms) ==
    [msg |-> NoMsg, status |-> "ok", reply |-> <<>>, events |-> NoEvents, self |-> <<>>,
     pre |-> ms, pre_clients |-> [seat \in Wind |-> NoClient]]

\* The match without a controller: MatchState and LocalState driven directly.
NoController(ms) ==
    /\ clients = [seat \in Wind |-> NoClient]
    /\ num_players = 0
    /\ mailbox = <<>>
    /\ outbox = [seat \in Wind |-> <<>>]
    /\ sent = NoEvents
    /\ handled = NotHandled(ms)
    /\ crashed = {}
    /\ joining = {}
    /\ other_answers = 0

\* The MatchState.
MS == [players |-> players, wall |-> wall, turn_state |-> turn_state]

Init ==
    \E deck \in Decks :
        LET ms == MatchState_new(deck).st
        IN /\ tileset = deck
           /\ players = ms.players
           /\ wall = ms.wall
           /\ turn_state = ms.turn_state
           /\ panicked = FALSE
           /\ locals = [seat \in Wind |-> local_state_for_player(ms, seat)]
           /\ last_event = [seat \in Wind |-> NoEvent]
           /\ last_op = [op |-> "new", drawn |-> <<>>, winner |-> <<>>, pre |-> ms.turn_state]
           /\ NoController(ms)
           /\ hand_state = ms.players["East"]
           /\ hand_op = NoHandOp(ms.players["East"])

\* The match state after an operation returned r; when it returned ok, the
\* events go to the four clients, which apply them, and last_op records the
\* operation: its name, the id it drew, the call it let win and the turn state
\* it started from.
Apply(op, r, events) ==
    /\ players' = r.st.players
    /\ wall' = r.st.wall
    /\ turn_state' = r.st.turn_state
    /\ panicked' = (r.status = "panic")
    /\ tileset' = tileset
    /\ UNCHANGED <<cvars, hand_state, hand_op>>
    /\ IF r.status = "ok"
       THEN /\ locals' = [seat \in Wind |->
                            IF events[seat] = NoEvent THEN locals[seat]
                            ELSE handle_event(locals[seat], events[seat]).st]
            /\ last_event' = [seat \in Wind |->
                                IF events[seat] = NoEvent THEN last_event[seat]
                                ELSE events[seat]]
            /\ last_op' = [op |-> op,
                            drawn |-> IF op = "draw_for_player" THEN <<r.ret>> ELSE <<>>,
                            winner |-> IF op = "decide_call" THEN r.ret ELSE <<>>,
                            pre |-> turn_state]
       ELSE UNCHANGED <<locals, last_event, last_op>>

\* Tiles a discard request may name for a seat: the first tiles of its hand,
\* its current draw and, as tiles it cannot discard, a tile of the next seat,
\* the seat's last discard, the called tile of its last open pong and the next
\* tile of the wall.
DiscardInputs(seat) ==
    {t.id : t \in Range(SubSeq(players[seat].tiles, 1, MaxDiscardChoice))}
    \cup {t.id : t \in Range(players[seat].current_draw)}
    \cup {players[next(seat)].tiles[1].id}
    \cup {t.id : t \in LastOf(players[seat].discards)}
    \cup {m[1].id : m \in LastOf(players[seat].open_pongs)}
    \cup {t.id : t \in LastOf(wall)}

\* Calls a call request may name for a seat: a pass, the calls the seat is
\* waiting with, and calls it cannot make.
CallInputs(seat) ==
    {Pass}
    \cup (IF turn_state.type = "AwaitingCalls" /\ seat \in DOMAIN turn_state.waiting
          THEN {<<c>> : c \in Range(turn_state.waiting[seat])}
          ELSE {})
    \cup {<<Ron>>, <<Kan(Red)>>,
          <<Pon(players[seat].tiles[1].id, players[seat].tiles[1].id)>>,
          <<Chii(players[seat].tiles[1].id, players[seat].tiles[2].id)>>}

DrawForPlayer ==
    /\ ~panicked
    /\ \E seat \in Wind :
        LET r == draw_for_player(MS, seat)
        IN Apply("draw_for_player", r,
                 [client_seat \in Wind |->
                    IF r.status = "ok" THEN broadcast_draw(client_seat, seat, r.ret)
                    ELSE NoEvent])

DiscardTile ==
    /\ ~panicked
    /\ \E seat \in Wind : \E tile \in DiscardInputs(seat) :
        LET r == MatchState_discard_tile(MS, seat, tile)
        IN Apply("discard_tile", r,
                 [client_seat \in Wind |->
                    discard_event(client_seat, seat, tile, calling_players_of(r.st.turn_state))])

RequestCall ==
    /\ ~panicked
    /\ \E seat \in Wind : \E call \in CallInputs(seat) :
        Apply("request_call", MatchState_call_tile(MS, seat, call),
              [client_seat \in Wind |-> NoEvent])

DecideCall ==
    /\ ~panicked
    /\ \E order \in IterationOrders(IF turn_state.type = "AwaitingCalls"
                                    THEN DOMAIN turn_state.calls ELSE {}) :
        LET r == decide_call(MS, order)
        IN Apply("decide_call", r,
                 [client_seat \in Wind |->
                    IF r.status = "ok"
                    THEN decide_event(r.ret, turn_state.discarding_player, turn_state.discard)
                    ELSE NoEvent])

Next == DrawForPlayer \/ DiscardTile \/ RequestCall \/ DecideCall

Spec == Init /\ [][Next]_vars

\* ------------------------------------------------- controller state machine

\* The ClientControllers that may join and the seats each asks for: both may
\* ask for South.
Controllers == {"a", "b"}

JoinSeats(controller) == IF controller = "a" THEN {"South"} ELSE {"South", "West"}

\* The MatchController's fields.
CS == [state |-> MS, clients |-> clients, num_players |-> num_players]

\* MatchController::new: nobody has joined, nothing was sent.
CtrlInit ==
    \E deck \in Decks : \E n \in 1 .. Cardinality(Controllers) :
        LET ms == MatchState_new(deck).st
        IN /\ tileset = deck
           /\ players = ms.players
           /\ wall = ms.wall
           /\ turn_state = ms.turn_state
           /\ panicked = FALSE
           /\ locals = [seat \in Wind |-> local_state_for_player(ms, seat)]
           /\ last_event = [seat \in Wind |-> NoEvent]
           /\ last_op = [op |-> "new", drawn |-> <<>>, winner |-> <<>>, pre |-> ms.turn_state]
           /\ clients = [seat \in Wind |-> NoClient]
           /\ num_players = n
           /\ mailbox = <<>>
           /\ outbox = [seat \in Wind |-> <<>>]
           /\ sent = NoEvents
           /\ handled = NotHandled(ms)
           /\ crashed = {}
           /\ joining = {}
           /\ other_answers = 0
           /\ hand_state = ms.players["East"]
           /\ hand_op = NoHandOp(ms.players["East"])

\* A ClientController asks to join, at any time up to the first request of
\* the match: its message enters the mailbox behind those already there.
SendJoin ==
    \E controller \in Controllers \ joining : \E seat \in JoinSeats(controller) :
        /\ handled.msg.type \in {"none", "join", "start_match"}
        /\ mailbox' = Append(mailbox, JoinMsg(controller, seat))
        /\ joining' = joining \cup {controller}
        /\ UNCHANGED <<tileset, players, wall, turn_state, panicked, locals, last_event,
                       last_op, clients, num_players, outbox, sent, handled, crashed,
                       other_answers, hand_state, hand_op>>

\* What else the player behind a ClientController may send on an event: on a
\* discard it can call a pass, on its own draw the discard of the tile drawn,
\* on the draw of another seat the discard of the first tile of that seat's
\* hand.
OtherRequests(from, seat, state, event, ms) ==
    CASE event.type = "TileDiscarded" ->
           IF state.turn_state.type = "AwaitingCalls" /\ state.turn_state.calls # <<>>
           THEN {CallTileMsg(from, seat, Pass)}
           ELSE {}
      [] event.type = "LocalDraw" -> {DiscardTileMsg(from, seat, event.tile)}
      [] event.type = "RemoteDraw" ->
           {DiscardTileMsg(from, event.seat, ms.players[event.seat].tiles[1].id)}
      [] OTHER -> {}

\* The answer of a client to an event it handled with outcome r: what a
\* dummy sends (policy) and, for the player behind a ClientController, what
\* it may send instead (others).  An event that has no answer leaves none.
AnswerTo(from, seat, r, event, ms) ==
    LET others == IF from \in Controllers THEN OtherRequests(from, seat, r.st, event, ms)
                  ELSE {}
    IN IF r.requests = <<>> /\ others = {} THEN <<>>
       ELSE <<[policy |-> r.requests, others |-> others]>>

AnswersThen(answer, rest) ==
    [status |-> rest.status, st |-> rest.st, answers |-> answer \o rest.answers]

\* A client handling the events one handler sent it, in the order sent: its
\* LocalState at the end and its answers.  A client that fails on an event
\* stops.
RECURSIVE HandleEvents(_, _, _, _, _)
RECURSIVE HandleEventsAfter(_, _, _, _, _)
HandleEventsAfter(from, seat, r, events, ms) ==
    IF r.status # "ok"
    THEN [status |-> r.status, st |-> r.st, answers |-> <<>>]
    ELSE AnswersThen(AnswerTo(from, seat, r, Head(events), ms),
                     HandleEvents(from, seat, r.st, Tail(events), ms))

HandleEvents(from, seat, state, events, ms) ==
    IF events = <<>>
    THEN [status |-> "ok", st |-> state, answers |-> <<>>]
    ELSE HandleEventsAfter(from, seat,
                           DummyClient_send_event(from, seat, state, Head(events)),
                           events, ms)

\* The controller has run a handler on the first message of its mailbox with
\* outcome r: its fields are r.st, the messages to itself are at the end of
\* the mailbox, a joined client holds the LocalState of the reply and a
\* spawned dummy the one it was created with.  Every client has the events
\* sent to it: a client's LocalState and answers depend on the order of its
\* events alone, so they are taken here, and the answers wait in the seat's
\* outbox until they reach the mailbox.
Delivered(msg, r, after) ==
    /\ players' = r.st.state.players
    /\ wall' = r.st.state.wall
    /\ turn_state' = r.st.state.turn_state
    /\ clients' = r.st.clients
    /\ panicked' = (r.status = "panic")
    /\ mailbox' = Tail(mailbox) \o r.self
    /\ sent' = ThenEvents(sent, r.events)
    /\ locals' = [seat \in Wind |-> after[seat].st]
    /\ outbox' = [seat \in Wind |-> outbox[seat] \o after[seat].answers]
    /\ crashed' = crashed \cup {seat \in Wind : after[seat].status # "ok"}
    /\ handled' = [msg |-> msg, status |-> r.status, reply |-> r.reply,
                   events |-> r.events, self |-> r.self, pre |-> MS,
                   pre_clients |-> clients]
    /\ UNCHANGED <<tileset, num_players, last_event, last_op, joining, other_answers,
                   hand_state, hand_op>>

\* The LocalState each client handles the events from: a dummy is built with
\* the projection of the match state, a joining client gets it as the reply.
ClientsBefore(msg, r) ==
    [seat \in Wind |->
       IF seat \in r.spawned THEN local_state_for_player(MS, seat)
       ELSE IF msg.type = "join" /\ msg.seat = seat /\ r.reply # <<>>
       THEN r.reply[1]
       ELSE locals[seat]]

ClientsAfter(r, before) ==
    [seat \in Wind |->
       IF seat \in crashed
       THEN [status |-> "ok", st |-> before[seat], answers |-> <<>>]
       ELSE HandleEvents(r.st.clients[seat], seat, before[seat], r.events[seat],
                         r.st.state)]

Deliver(msg, r) ==
    Delivered(msg, r, ClientsAfter(r, ClientsBefore(msg, r)))

\* The controller takes the next message of its mailbox and runs its handler
\* to the end; a panic stops the actor.
HandleJoin ==
    /\ ~panicked /\ mailbox # <<>> /\ Head(mailbox).type = "join"
    /\ Deliver(Head(mailbox), Controller_join(CS, Head(mailbox).from, Head(mailbox).seat))

HandleStartMatch ==
    /\ ~panicked /\ mailbox # <<>> /\ Head(mailbox).type = "start_match"
    /\ Deliver(Head(mailbox), Controller_start_match(CS))

HandleDiscardTile ==
    /\ ~panicked /\ mailbox # <<>> /\ Head(mailbox).type = "discard_tile"
    /\ Deliver(Head(mailbox),
               Controller_discard_tile(CS, Head(mailbox).seat, Head(mailbox).tile))

\* The orders in which decide_call may iterate the calls once this request
\* is in.
CallOrders(requested) ==
    IterationOrders(IF requested.status = "ok" THEN DOMAIN requested.st.turn_state.calls
                    ELSE {})

HandleCallTile ==
    /\ ~panicked /\ mailbox # <<>> /\ Head(mailbox).type = "call_tile"
    /\ \E order \in CallOrders(request_call(MS, Head(mailbox).seat, Head(mailbox).call)) :
         Deliver(Head(mailbox),
                 Controller_call_tile(CS, Head(mailbox).seat, Head(mailbox).call, order))

\* The next answer of a seat's client reaches the controller's mailbox: what
\* a dummy sends or, from a player behind a ClientController, another
\* request or none.
ClientSend ==
    \E seat \in Wind :
        /\ outbox[seat] # <<>>
        /\ LET answer == Head(outbox[seat])
           IN \E requests \in {answer.policy} \cup
                              (IF other_answers < MaxOtherAnswers /\ answer.others # {}
                               THEN {<<>>} \cup {<<other>> : other \in answer.others}
                               ELSE {}) :
                /\ mailbox' = mailbox \o requests
                /\ outbox' = [outbox EXCEPT ![seat] = Tail(@)]
                /\ other_answers' = IF requests = answer.policy THEN other_answers
                                    ELSE other_answers + 1
                /\ UNCHANGED <<tileset, players, wall, turn_state, panicked, locals,
                               last_event, last_op, clients, num_players, sent, handled,
                               crashed, joining, hand_state, hand_op>>

CtrlNext ==
    \/ SendJoin
    \/ HandleJoin
    \/ HandleStartMatch
    \/ HandleDiscardTile
    \/ HandleCallTile
    \/ ClientSend

CtrlSpec == CtrlInit /\ [][CtrlNext]_vars

\* -------------------------------------------------------- a hand on its own

\* The tiles another player may have discarded.
HandDiscards == {Inst(Coins(3), 0), Inst(Coins(5), 1)}

\* HandState::new on 13 tiles: MaxCore different tiles of a pool in any
\* order, then tiles that make no meld.  The match is left as it was created.
HandInit ==
    /\ LET pool == {Inst(Coins(3), 1), Inst(Coins(3), 2), Inst(Coins(3), 3),
                    Inst(Coins(4), 0), Inst(Coins(2), 0)}
       IN \E core \in {s \in [1 .. MaxCore -> pool] :
                          \A i, j \in 1 .. MaxCore : i # j => s[i] # s[j]} :
             hand_state = Hand_new(core \o FillerHand(0, HandSize - MaxCore)).st
    /\ hand_op = NoHandOp(hand_state)
    /\ LET ms == MatchState_new(DeckPon).st
       IN /\ tileset = DeckPon
          /\ players = ms.players
          /\ wall = ms.wall
          /\ turn_state = ms.turn_state
          /\ panicked = FALSE
          /\ locals = [seat \in Wind |-> local_state_for_player(ms, seat)]
          /\ last_event = [seat \in Wind |-> NoEvent]
          /\ last_op = [op |-> "new", drawn |-> <<>>, winner |-> <<>>, pre |-> ms.turn_state]
          /\ NoController(ms)

\* draw_tile of the next tile of a wall of two tiles, also on a hand that has
\* a draw already.
HandDrawTile ==
    /\ hand_op.status # "panic"
    /\ \E tile \in {Inst(Coins(4), 3), Inst(Green, 1)} :
        LET r == Hand_draw_tile(hand_state, tile)
            drawn == Len(hand_state.current_draw) + Len(hand_state.discards)
        IN /\ drawn < 2
           /\ tile = IF drawn = 0 THEN Inst(Coins(4), 3) ELSE Inst(Green, 1)
           /\ hand_state' = r.st
           /\ hand_op' = [NoHandOp(hand_state) EXCEPT !.op = "draw_tile", !.status = r.status,
                                                 !.ret = r.ret, !.inst = <<tile>>]
    /\ UNCHANGED <<tileset, players, wall, turn_state, panicked, locals, last_event,
                   last_op, cvars>>

\* discard_tile of one of the first concealed tiles, the current draw, the
\* last discard, a tile of the last meld or a tile the hand never held.
HandDiscardTile ==
    /\ hand_op.status # "panic"
    /\ \E id \in {t.id : t \in Range(SubSeq(hand_state.tiles, 1, MaxDiscardChoice))}
                 \cup {t.id : t \in Range(hand_state.current_draw)}
                 \cup {t.id : t \in LastOf(hand_state.discards)}
                 \cup {m[2].id : m \in LastOf(hand_state.open_chows)
                                       \cup LastOf(hand_state.open_pongs)
                                       \cup LastOf(hand_state.open_kongs)}
                 \cup {Inst(Red, 0).id} :
        LET r == Hand_discard_tile(hand_state, id)
        IN /\ hand_state' = r.st
           /\ hand_op' = [NoHandOp(hand_state) EXCEPT !.op = "discard_tile", !.status = r.status,
                                                 !.ret = r.ret, !.id = <<id>>]
    /\ UNCHANGED <<tileset, players, wall, turn_state, panicked, locals, last_event,
                   last_op, cvars>>

\* find_possible_calls for a discarded tile value, with and without chii.
HandFindPossibleCalls ==
    /\ hand_op.status # "panic"
    /\ \E discard \in HandDiscards : \E can_call_chii \in BOOLEAN :
        hand_op' = [NoHandOp(hand_state) EXCEPT
                      !.op = "find_possible_calls",
                      !.status = IF find_possible_calls_panics(hand_state, discard.tile)
                                 THEN "panic" ELSE "ok",
                      !.tile = <<discard.tile>>,
                      !.chii = can_call_chii,
                      !.calls = IF find_possible_calls_panics(hand_state, discard.tile) THEN <<>>
                                ELSE find_possible_calls(hand_state, discard.tile, can_call_chii)]
    /\ UNCHANGED <<hand_state, tileset, players, wall, turn_state, panicked, locals, last_event,
                   last_op, cvars>>

\* call_tile on a discard with a call find_possible_calls offers or one it
\* does not offer: one tile named twice, a tile the hand does not hold, tiles
\* that make no meld with the discard.  Calls come before the hand's draws,
\* and none is made on a hand that is short of a tile.
HandCallTile ==
    /\ hand_op.status # "panic"
    /\ hand_state.current_draw = <<>> /\ hand_state.discards = <<>>
    /\ Len(hand_state.open_chows) + Len(hand_state.open_pongs) + Len(hand_state.open_kongs)
         < MaxHandCalls
    /\ Len(hand_state.tiles) + 2 * Len(hand_state.open_chows) + 2 * Len(hand_state.open_pongs)
         + 3 * Len(hand_state.open_kongs) = HandSize
    /\ \E discard \in HandDiscards :
        \E call \in Range(find_possible_calls(hand_state, discard.tile, TRUE))
                    \cup {Kan(discard.tile),
                          Pon(hand_state.tiles[1].id, hand_state.tiles[1].id),
                          Chii(hand_state.tiles[1].id, hand_state.tiles[1].id),
                          Pon(hand_state.tiles[1].id, Inst(Red, 0).id),
                          Chii(Inst(Red, 0).id, hand_state.tiles[1].id),
                          Chii(hand_state.tiles[2].id, hand_state.tiles[1].id)} :
            LET r == Hand_call_tile(hand_state, discard, call)
            IN /\ hand_state' = r.st
               /\ hand_op' = [NoHandOp(hand_state) EXCEPT !.op = "call_tile", !.status = r.status,
                                                     !.ret = r.ret, !.inst = <<discard>>,
                                                     !.call = <<call>>]
    /\ UNCHANGED <<tileset, players, wall, turn_state, panicked, locals, last_event,
                   last_op, cvars>>

HandNext == HandDrawTile \/ HandDiscardTile \/ HandFindPossibleCalls \/ HandCallTile

HandSpec == HandInit /\ [][HandNext]_vars

\* ------------------------------------------------------------ three tiles

\* is_chow on three tile values in ascending order; the hand and the match
\* are left as they were created.
ChowInit ==
    /\ \E first, second, third \in Tile :
          /\ first <= second /\ second <= third
          /\ hand_op = [NoHandOp(MatchState_new(DeckPon).st.players["East"]) EXCEPT
                          !.op = "is_chow",
                          !.tile = <<first, second, third>>,
                          !.ret = IF is_chow(first, second, third) THEN "true" ELSE "false"]
    /\ hand_state = hand_op.pre
    /\ LET ms == MatchState_new(DeckPon).st
       IN /\ tileset = DeckPon
          /\ players = ms.players
          /\ wall = ms.wall
          /\ turn_state = ms.turn_state
          /\ panicked = FALSE
          /\ locals = [seat \in Wind |-> local_state_for_player(ms, seat)]
          /\ last_event = [seat \in Wind |-> NoEvent]
          /\ last_op = [op |-> "new", drawn |-> <<>>, winner |-> <<>>, pre |-> ms.turn_state]
          /\ NoController(ms)

\* is_chow on the same tiles with two neighbours exchanged.
ChowPermute ==
    /\ \E order \in {<<2, 1, 3>>, <<1, 3, 2>>} :
          LET tiles == [i \in 1 .. 3 |-> hand_op.tile[order[i]]]
          IN hand_op' = [hand_op EXCEPT
                           !.tile = tiles,
                           !.ret = IF is_chow(tiles[1], tiles[2], tiles[3])
                                   THEN "true" ELSE "false"]
    /\ UNCHANGED <<hand_state, tileset, players, wall, turn_state, panicked, locals,
                   last_event, last_op, cvars>>

ChowSpec == ChowInit /\ [][ChowPermute]_vars

\* ------------------------------------------------------------ tile locations

\* How often the id occurs in a sequence of tiles.
Occurrences(tiles, id) == Cardinality({i \in DOMAIN tiles : tiles[i].id = id})

\* How often the id occurs in a sequence of melds.
MeldOccurrences(melds, id) ==
    Cardinality({pos \in (DOMAIN melds) \X (1 .. 4) :
                    /\ pos[2] <= Len(melds[pos[1]])
                    /\ melds[pos[1]][pos[2]].id = id})

\* How often the id occurs in a hand: concealed tiles, current draw, melds and
\* discards.
HandOccurrences(hand, id) ==
    Occurrences(hand.tiles, id)
    + Occurrences(hand.current_draw, id)
    + MeldOccurrences(hand.open_chows, id)
    + MeldOccurrences(hand.open_pongs, id)
    + MeldOccurrences(hand.open_kongs, id)
    + MeldOccurrences(hand.closed_kongs, id)
    + Occurrences(hand.discards, id)

\* How often the id occurs in the match: the wall and the four hands.
MatchOccurrences(id) ==
    Occurrences(wall, id)
    + HandOccurrences(players["East"], id)
    + HandOccurrences(players["South"], id)
    + HandOccurrences(players["West"], id)
    + HandOccurrences(players["North"], id)

\* Number of melds of a hand.
MeldCount(hand) ==
    Len(hand.open_chows) + Len(hand.open_pongs) + Len(hand.open_kongs) + Len(hand.closed_kongs)

\* The tile budget of a hand.
HandBudget(hand) ==
    Len(hand.tiles)
    + 3 * Len(hand.open_chows)
    + 3 * Len(hand.open_pongs)
    + 4 * Len(hand.open_kongs)
    + 4 * Len(hand.closed_kongs)
    + (IF hand.current_draw # <<>> THEN 1 ELSE 0)

\* ------------------------------------------------------------------- properties

\* The turn states of a LocalState and of a projection agree on everything
\* but the list of calls: the kind, the seat and, while calls are awaited, the
\* discarding player and the discard.
SameTurn(local_turn, projected_turn) ==
    /\ local_turn.type = projected_turn.type
    /\ IF local_turn.type = "AwaitingCalls"
       THEN /\ local_turn.discarding_player = projected_turn.discarding_player
            /\ local_turn.discard = projected_turn.discard
       ELSE local_turn.seat = projected_turn.seat

\* C1: for every seat, the LocalState obtained by replaying the events emitted
\* to the seat matches local_state_for_player of the MatchState: every hand is
\* to_local of the authoritative hand and the turn state is the projection of
\* the authoritative turn state.
C1_ProjectionFidelity ==
    \A seat \in Wind :
        /\ \A hand_seat \in Wind :
              locals[seat].players[hand_seat] = to_local(players[hand_seat], hand_seat = seat)
        /\ SameTurn(locals[seat].turn_state, local_state_for_player(MS, seat).turn_state)

\* C2: every tile id of the tileset the match was created with occurs exactly
\* once across the wall and the four hands' concealed tiles, current draws,
\* melds and discards.
C2_TileConservation ==
    \A i \in DOMAIN tileset : MatchOccurrences(tileset[i].id) = 1

\* A winning call has been applied after at least two draws: tiles sit in the
\* wall, in concealed hands, in a meld and in discard piles.
C2_Witness ==
    /\ Len(wall) < MaxWall - 1
    /\ \E seat \in Wind : MeldCount(players[seat]) > 0
    /\ \E seat \in Wind : players[seat].discards # <<>>

\* C3: the budget of every hand is 13 when the hand has no current draw and 14
\* when it has one.
C3_HandBudget ==
    \A seat \in Wind :
        HandBudget(players[seat]) = (IF players[seat].current_draw = <<>> THEN 13 ELSE 14)

\* C4: in AwaitingDiscard(p) the hand of p has a current draw and no other
\* hand has one; in AwaitingDraw and AwaitingCalls no hand has a current draw.
C4_TurnWellFormed ==
    \A seat \in Wind :
        (players[seat].current_draw # <<>>) <=> (turn_state = AwaitingDiscard(seat))

\* A seat other than East holds its draw while the other three hold none.
C4_Witness ==
    /\ turn_state.type = "AwaitingDiscard"
    /\ turn_state.seat # "East"
    /\ players[turn_state.seat].current_draw # <<>>
    /\ players["East"].discards # <<>>

\* C9: draw_for_player(p) in AwaitingDraw(p) with an empty wall succeeds,
\* moves the match to MatchEnded and leaves every hand unchanged.
C9_EmptyWallEndsMatch ==
    \A seat \in Wind :
        (turn_state = AwaitingDraw(seat) /\ wall = <<>>) =>
            LET r == draw_for_player(MS, seat)
            IN /\ r.status = "ok"
               /\ r.st.turn_state.type = "MatchEnded"
               /\ r.st.players = players

\* One step of the turn state along the transition table.
C5_Step ==
    turn_state' # turn_state =>
        CASE turn_state.type = "AwaitingDraw" ->
               \/ turn_state' = AwaitingDiscard(turn_state.seat)
               \/ turn_state'.type = "MatchEnded"
          [] turn_state.type = "AwaitingDiscard" ->
               \/ turn_state' = AwaitingDraw(next(turn_state.seat))
               \/ /\ turn_state'.type = "AwaitingCalls"
                  /\ turn_state'.discarding_player = turn_state.seat
          [] turn_state.type = "AwaitingCalls" ->
               \/ /\ turn_state'.type = "AwaitingCalls"
                  /\ turn_state'.discarding_player = turn_state.discarding_player
                  /\ turn_state'.discard = turn_state.discard
               \/ /\ DOMAIN turn_state.calls = {}
                  /\ turn_state' = AwaitingDraw(next(turn_state.discarding_player))
               \/ \E caller \in DOMAIN turn_state.calls :
                     turn_state' = AwaitingDraw(next(caller))
          [] OTHER -> FALSE

\* C5: the turn state only changes along the transition table: AwaitingDraw(p)
\* to AwaitingDiscard(p) or MatchEnded; AwaitingDiscard(p) to AwaitingCalls
\* with discarding player p or to AwaitingDraw(next(p)); AwaitingCalls to
\* AwaitingCalls with the same discarding player and discard, to
\* AwaitingDraw(next(discarding player)) when every seat passed, or to
\* AwaitingDraw(next(caller)) on a winning call; MatchEnded to nothing.
C5_TransitionTable == [][C5_Step]_vars

\* A winning call has passed the turn to the seat after the caller, which is
\* not the seat after the discarding player.
C5_Witness ==
    /\ last_op.op = "decide_call"
    /\ last_op.winner # <<>>
    /\ turn_state = AwaitingDraw(next(last_op.winner[1].seat))
    /\ turn_state # AwaitingDraw(next(last_op.pre.discarding_player))

\* Tile ids a discard request can name: every tile of the match and an id no
\* tile has.
AnyTileIds == {tileset[i].id : i \in DOMAIN tileset} \cup {NumTiles}

\* Calls a call request can name: the calls of every seat's CallInputs.
AnyCalls == UNION {CallInputs(seat) : seat \in Wind}

\* The operation returned an error and left the MatchState as it was.
Rejected(r) == r.status = "err" /\ r.st = MS

\* C6: draw_for_player, discard_tile, request_call and decide_call, invoked
\* in the wrong turn state, for the wrong seat or with an invalid tile or
\* call, return an error, and whenever they do not succeed the MatchState is
\* the one before the invocation.
C6_FailuresLeaveState ==
    /\ \A seat \in Wind :
          LET r == draw_for_player(MS, seat)
          IN /\ turn_state # AwaitingDraw(seat) => r.status = "err"
             /\ r.status # "ok" => Rejected(r)
    /\ \A seat \in Wind : \A tile \in AnyTileIds :
          LET r == MatchState_discard_tile(MS, seat, tile)
              held == Occurrences(players[seat].tiles, tile)
                      + Occurrences(players[seat].current_draw, tile)
          IN /\ (turn_state # AwaitingDiscard(seat) \/ held = 0) => r.status = "err"
             /\ r.status # "ok" => Rejected(r)
    /\ \A seat \in Wind : \A call \in AnyCalls :
          LET r == MatchState_call_tile(MS, seat, call)
              invalid == \/ turn_state.type # "AwaitingCalls"
                         \/ seat \notin DOMAIN turn_state.waiting
                         \/ call # Pass /\ call[1] \notin Range(turn_state.waiting[seat])
          IN /\ invalid => r.status = "err"
             /\ r.status # "ok" => Rejected(r)
    /\ \A order \in IterationOrders(IF turn_state.type = "AwaitingCalls"
                                    THEN DOMAIN turn_state.calls ELSE {}) :
          LET r == decide_call(MS, order)
              invalid == \/ turn_state.type # "AwaitingCalls"
                         \/ DOMAIN turn_state.waiting # {}
          IN /\ invalid => r.status = "err"
             /\ r.status # "ok" => Rejected(r)

\* One seat has called and another is still waiting; a call the waiting seat
\* cannot make, a call of the seat that has called, a draw and decide_call are
\* all rejected.
C6_Witness ==
    /\ turn_state.type = "AwaitingCalls"
    /\ DOMAIN turn_state.calls # {}
    /\ \E seat \in DOMAIN turn_state.waiting :
          /\ Rejected(MatchState_call_tile(MS, seat, <<Ron>>))
          /\ Rejected(draw_for_player(MS, seat))
    /\ \E seat \in DOMAIN turn_state.calls :
          Rejected(MatchState_call_tile(MS, seat, <<turn_state.calls[seat]>>))
    /\ \A order \in IterationOrders(DOMAIN turn_state.calls) : Rejected(decide_call(MS, order))

\* The rank of a call in the precedence Ron > Kan > Pon > Chii.
Rank(call) ==
    CASE CallKind(call) = "Ron" -> 4
      [] CallKind(call) = "Kan" -> 3
      [] CallKind(call) = "Pon" -> 2
      [] CallKind(call) = "Chii" -> 1

\* One call of every kind; compare_calls looks at the kind only.
SampleCalls == {Ron, Kan(Red), Pon(0, 1), Chii(0, 1)}

\* The call of left_seat outranks the call of right_seat: it has the higher
\* rank, or both are Ron and left_seat is closer to the discarding seat.
Outranks(left_seat, left_call, right_seat, right_call, discarding_seat) ==
    \/ Rank(left_call) > Rank(right_call)
    \/ /\ CallKind(left_call) = "Ron"
       /\ CallKind(right_call) = "Ron"
       /\ distance_to(discarding_seat, left_seat) < distance_to(discarding_seat, right_seat)

\* C7: compare_calls is Greater exactly when the left call outranks the right
\* one under Ron > Kan > Pon > Chii with head bump between two Ron calls, and
\* is the reverse of the comparison with the sides swapped; decide_call, run
\* with waiting empty and calls non-empty, applies the call that is Greater
\* than every other call made, in whatever order the calls are iterated.
C7_CallPrecedence ==
    /\ \A left_seat, right_seat, discarding_seat \in Wind :
       \A left_call, right_call \in SampleCalls :
          (/\ left_seat # right_seat
           /\ discarding_seat \notin {left_seat, right_seat}
           /\ CallKind(left_call) # CallKind(right_call) \/ left_call = Ron) =>
             LET ordering == compare_calls(left_seat, left_call, right_seat, right_call,
                                           discarding_seat)
                 reverse == compare_calls(right_seat, right_call, left_seat, left_call,
                                          discarding_seat)
             IN /\ ordering \in {"Greater", "Less"}
                /\ ordering = "Greater" <=>
                      Outranks(left_seat, left_call, right_seat, right_call, discarding_seat)
                /\ ordering = "Greater" <=> reverse = "Less"
                /\ ordering = "Less" <=> reverse = "Greater"
    /\ (/\ turn_state.type = "AwaitingCalls"
        /\ DOMAIN turn_state.waiting = {}
        /\ DOMAIN turn_state.calls # {}) =>
          \A order \in IterationOrders(DOMAIN turn_state.calls) :
             LET r == decide_call(MS, order)
                 calls == turn_state.calls
             IN /\ r.status = "ok"
                /\ r.ret # <<>>
                /\ r.ret[1].seat \in DOMAIN calls
                /\ r.ret[1].call = calls[r.ret[1].seat]
                /\ \A other \in (DOMAIN calls) \ {r.ret[1].seat} :
                      /\ compare_calls(r.ret[1].seat, r.ret[1].call, other, calls[other],
                                       turn_state.discarding_player) = "Greater"
                      /\ Rank(r.ret[1].call) > Rank(calls[other])

\* Two seats called the same discard and decide_call applied the Kan over the
\* Chii.
C7_Witness ==
    /\ last_op.op = "decide_call"
    /\ Cardinality(DOMAIN last_op.pre.calls) = 2
    /\ last_op.winner # <<>>
    /\ CallKind(last_op.winner[1].call) = "Kan"
    /\ \E seat \in DOMAIN last_op.pre.calls : CallKind(last_op.pre.calls[seat]) = "Chii"

\* The ids of the concealed tiles the call takes from the hand.
NamedIds(hand, call) ==
    IF CallKind(call) = "Kan"
    THEN {tile.id : tile \in Range(FilterByTile(hand.tiles, call[2]))}
    ELSE {call[2], call[3]}

\* The melds of the kind the call makes.
MeldsOf(hand, call) ==
    CASE CallKind(call) = "Chii" -> hand.open_chows
      [] CallKind(call) = "Pon" -> hand.open_pongs
      [] CallKind(call) = "Kan" -> hand.open_kongs

\* The step of decide_call: the one that leaves AwaitingCalls for AwaitingDraw.
C8_Step ==
    (turn_state.type = "AwaitingCalls" /\ turn_state'.type = "AwaitingDraw") =>
        LET p == turn_state.discarding_player
            t == turn_state.discard
            calls == turn_state.calls
        IN /\ wall' = wall
           /\ IF DOMAIN calls = {}
              THEN /\ players' = players
                   /\ turn_state' = AwaitingDraw(next(p))
              ELSE \E c \in DOMAIN calls :
                     LET call == calls[c]
                         named == NamedIds(players[c], call)
                         before == MeldsOf(players[c], call)
                         after == MeldsOf(players'[c], call)
                     IN /\ turn_state' = AwaitingDraw(next(c))
                        /\ c # p
                        /\ players[p].discards # <<>>
                        /\ players[p].discards[Len(players[p].discards)].id = t
                        /\ players'[p] =
                              [players[p] EXCEPT
                                 !.discards = SubSeq(@, 1, Len(@) - 1)]
                        /\ \A other \in Wind \ {p, c} : players'[other] = players[other]
                        /\ MeldCount(players'[c]) = MeldCount(players[c]) + 1
                        /\ Len(after) = Len(before) + 1
                        /\ SubSeq(after, 1, Len(before)) = before
                        /\ Len(after[Len(after)]) = Cardinality(named) + 1
                        /\ {tile.id : tile \in Range(after[Len(after)])} = named \cup {t}
                        /\ Cardinality(named) = (IF CallKind(call) = "Kan" THEN 3 ELSE 2)
                        /\ named \subseteq {tile.id : tile \in Range(players[c].tiles)}
                        /\ players'[c].tiles =
                              SelectSeq(players[c].tiles, LAMBDA tile : tile.id \notin named)
                        /\ players'[c].discards = players[c].discards
                        /\ players'[c].current_draw = players[c].current_draw

\* C8: decide_call with a winning call by seat c on discard t of seat p takes
\* t, the last discard of p, out of p's discards, gives c exactly one more open
\* meld holding t and the tiles the call names, which leave c's concealed
\* tiles, leaves the other hands and the wall unchanged and sets the turn
\* state to AwaitingDraw(next(c)); when every waiting seat passed it leaves all
\* hands and the wall unchanged and sets AwaitingDraw(next(p)).
C8_DecideCallEffect == [][C8_Step]_vars

\* decide_call has applied a winning Pon: the caller holds the pong with the
\* called tile and the discarding player's pile has lost it.
C8_Witness ==
    /\ last_op.op = "decide_call"
    /\ last_op.winner # <<>>
    /\ CallKind(last_op.winner[1].call) = "Pon"
    /\ LET c == last_op.winner[1].seat
       IN /\ players[c].open_pongs # <<>>
          /\ players[c].open_pongs[Len(players[c].open_pongs)][1].id = last_op.pre.discard
          /\ Occurrences(players[last_op.pre.discarding_player].discards,
                         last_op.pre.discard) = 0

\* C10: after a successful discard of tile t by seat p, the TileDiscarded
\* event delivered to seat s carries waiting[s] when s is waiting and the empty
\* list otherwise, and nothing else of the waiting map; the list is the one
\* find_possible_calls gives for the hand of s alone, so that it is the same
\* whichever other seats can call.
C10_DiscardHidesOtherCalls ==
    last_op.op = "discard_tile" =>
        LET p == last_op.pre.seat
            t == players[p].discards[Len(players[p].discards)].id
        IN \A s \in Wind :
              /\ DOMAIN last_event[s] = {"type", "seat", "tile", "calls"}
              /\ last_event[s] =
                    TileDiscarded(p, t,
                                  IF turn_state.type = "AwaitingCalls"
                                     /\ s \in DOMAIN turn_state.waiting
                                  THEN turn_state.waiting[s]
                                  ELSE <<>>)
              /\ last_event[s].calls =
                    (IF s = p THEN <<>>
                     ELSE find_possible_calls(players[s], by_id(t), next(p) = s))

\* A discard two seats can call: each got its own list, the other two seats
\* the empty list.
C10_Witness ==
    /\ last_op.op = "discard_tile"
    /\ turn_state.type = "AwaitingCalls"
    /\ Cardinality(DOMAIN turn_state.waiting) = 2
    /\ \E s, o \in DOMAIN turn_state.waiting :
          /\ last_event[s].calls # last_event[o].calls
          /\ last_event[s].calls # <<>>
          /\ last_event[o].calls # <<>>
    /\ \E s \in Wind \ {last_op.pre.seat} : last_event[s].calls = <<>>

\* ------------------------------------------------------------ all-pass play

\* No call has won so far and none is registered: every discard up to now
\* was passed by every seat that could call it.
AllPassPlay ==
    /\ \A seat \in Wind : MeldCount(players[seat]) = 0
    /\ turn_state.type = "AwaitingCalls" => DOMAIN turn_state.calls = {}

\* The seat whose turn it is after the given number of draws.
SeatOfTurn(draws) == WindOrder[((draws - 1) % NumWinds) + 1]

\* In all-pass play the turn is the one of the seat the draws so far lead to
\* and every hand holds 13 concealed tiles.
AllPassTurn ==
    LET draws == (Len(tileset) - NumWinds * HandSize) - Len(wall)
    IN /\ \A seat \in Wind : Len(players[seat].tiles) = HandSize
       /\ CASE turn_state.type = "AwaitingDraw" ->
                 /\ turn_state.seat = SeatOfTurn(draws + 1)
                 /\ \A seat \in Wind : players[seat].current_draw = <<>>
            [] turn_state.type = "AwaitingDiscard" ->
                 turn_state.seat = SeatOfTurn(draws)
            [] turn_state.type = "AwaitingCalls" ->
                 /\ turn_state.discarding_player = SeatOfTurn(draws)
                 /\ players[turn_state.discarding_player].current_draw = <<>>

\* The next operation of the all-pass play and what it does: a draw takes
\* one tile off the wall for the seat in turn; the discard of the first tile
\* of the hand leaves the discarder with 13 concealed tiles and no draw and
\* opens the call phase or hands the draw to the next seat; a pass leaves
\* hands and wall alone; decide_call finds no winner and hands the draw to
\* the seat after the discarder.
AllPassGoesOn ==
    CASE turn_state.type = "AwaitingDraw" ->
           wall # <<>> =>
               LET r == draw_for_player(MS, turn_state.seat)
               IN /\ r.status = "ok"
                  /\ r.st.turn_state = AwaitingDiscard(turn_state.seat)
                  /\ Len(r.st.wall) = Len(wall) - 1
      [] turn_state.type = "AwaitingDiscard" ->
           LET p == turn_state.seat
               r == MatchState_discard_tile(MS, p, players[p].tiles[1].id)
           IN /\ r.status = "ok"
              /\ r.st.wall = wall
              /\ Len(r.st.players[p].tiles) = HandSize
              /\ r.st.players[p].current_draw = <<>>
              /\ \/ r.st.turn_state = AwaitingDraw(next(p))
                 \/ /\ r.st.turn_state.type = "AwaitingCalls"
                    /\ r.st.turn_state.discarding_player = p
                    /\ DOMAIN r.st.turn_state.calls = {}
      [] turn_state.type = "AwaitingCalls" ->
           /\ \A seat \in DOMAIN turn_state.waiting :
                 LET r == MatchState_call_tile(MS, seat, Pass)
                 IN /\ r.status = "ok"
                    /\ r.st.players = players /\ r.st.wall = wall
                    /\ DOMAIN r.st.turn_state.waiting = DOMAIN turn_state.waiting \ {seat}
                    /\ DOMAIN r.st.turn_state.calls = {}
           /\ DOMAIN turn_state.waiting = {} =>
                 LET r == decide_call(MS, <<>>)
                 IN /\ r.status = "ok"
                    /\ r.ret = <<>>
                    /\ r.st.players = players /\ r.st.wall = wall
                    /\ r.st.turn_state = AwaitingDraw(next(turn_state.discarding_player))

AuthoritativeCalls(seat) ==
    IF turn_state.type = "AwaitingCalls" /\ seat \in DOMAIN turn_state.waiting
    THEN turn_state.waiting[seat]
    ELSE <<>>

C20_Step ==
    \A seat \in Wind :
        LET before == locals[seat].turn_state
            after == locals'[seat].turn_state
        IN /\ (before.type = "AwaitingDiscard" /\ locals'[seat] # locals[seat]) =>
                 /\ last_event'[seat].type = "TileDiscarded"
                 /\ after.type = "AwaitingCalls"
                 /\ after.discarding_player = before.seat
                 /\ after.discard = last_event'[seat].tile
           /\ (before.type = "AwaitingCalls" /\ after # before) =>
                 /\ last_event'[seat].type \in {"Call", "Pass"}
                 /\ after.type = "AwaitingDraw"
           /\ after.type = "AwaitingDraw" => before.type \in {"AwaitingDraw", "AwaitingCalls"}

DrewInHandler == handled.status = "ok" /\ Len(wall) < Len(handled.pre.wall)

DrawEvents(events) ==
    SelectSeq(events, LAMBDA event : event.type \in {"LocalDraw", "RemoteDraw"})

\* C11: whenever a handler of the controller draws a tile for seat p, p is
\* sent exactly one LocalDraw with its seat and the id of the tile taken from
\* the wall, every other seat exactly one RemoteDraw with the seat of p and no
\* tile field, and what the other seats are sent is the same whichever tile
\* was drawn.
C11_DrawFanOut ==
    DrewInHandler =>
        LET p == turn_state.seat
            tile == handled.pre.wall[Len(handled.pre.wall)].id
        IN /\ turn_state.type = "AwaitingDiscard"
           /\ players[p].current_draw # <<>> /\ players[p].current_draw[1].id = tile
           /\ DrawEvents(handled.events[p]) = <<LocalDraw(p, tile)>>
           /\ \A s \in Wind \ {p} :
                 /\ DrawEvents(handled.events[s]) = <<RemoteDraw(p)>>
                 /\ \A event \in Range(handled.events[s]) : "tile" \in DOMAIN event =>
                       event.type = "TileDiscarded"
                 /\ \A other \in TileId :
                       broadcast_draw(s, p, other) = broadcast_draw(s, p, tile)

\* A call was decided and the next seat drew: the drawing seat was told its
\* tile, the three others were not.
C11_Witness ==
    /\ DrewInHandler
    /\ handled.msg.type = "call_tile"
    /\ \E p \in Wind :
          /\ \E event \in Range(handled.events[p]) : event.type = "LocalDraw"
          /\ \A s \in Wind \ {p} :
                \E event \in Range(handled.events[s]) : event.type = "RemoteDraw"


\* The handler that ran last was discard_tile with a discard the match state
\* accepted and no seat can call, the wall not being empty.
UncalledDiscardHandled ==
    /\ handled.msg.type = "discard_tile"
    /\ handled.pre.wall # <<>>
    /\ LET discarded == MatchState_discard_tile(handled.pre, handled.msg.seat,
                                                handled.msg.tile)
       IN /\ discarded.status = "ok"
          /\ DOMAIN calling_players_of(discarded.st.turn_state) = {}

\* The handler that ran last was call_tile and it decided the call phase.
CallDecidedHandled ==
    /\ handled.msg.type = "call_tile"
    /\ \E seat \in Wind : handled.events[seat] # <<>>

\* C12: for a discard that no seat can call, discard_tile sends each client
\* TileDiscarded with empty calls and right after it the LocalDraw or
\* RemoteDraw of the next seat's draw; when call_tile resolves the call phase
\* it sends each client Call or Pass and right after it the LocalDraw or
\* RemoteDraw of the next draw or MatchEnded; nothing else is sent.
C12_EventOrder ==
    /\ UncalledDiscardHandled =>
          \A seat \in Wind :
              /\ Len(handled.events[seat]) = 2
              /\ handled.events[seat][1] =
                    TileDiscarded(handled.msg.seat, handled.msg.tile, <<>>)
              /\ handled.events[seat][2].type \in {"LocalDraw", "RemoteDraw"}
              /\ handled.events[seat][2].seat = next(handled.msg.seat)
    /\ CallDecidedHandled =>
          \A seat \in Wind :
              /\ Len(handled.events[seat]) = 2
              /\ handled.events[seat][1].type \in {"Call", "Pass"}
              /\ handled.events[seat][2].type \in {"LocalDraw", "RemoteDraw", "MatchEnded"}


\* The handler that ran last was a join that succeeded.
JoinedHandled == handled.msg.type = "join" /\ handled.status = "ok"

\* C13: a join that succeeds sends no event; when it brings the number of
\* clients to num_players it sends start_match to the controller's own
\* mailbox, behind the messages already waiting, and otherwise sends nothing;
\* its reply is the LocalState of the joining seat with turn state
\* AwaitingDraw(East) and no hand holding a draw, and no event has been sent
\* to any client by then.
C13_DeferredStart ==
    JoinedHandled =>
        LET seat == handled.msg.seat
            joined == {s \in Wind : clients[s] # NoClient}
        IN /\ handled.events = NoEvents
           /\ sent = NoEvents
           /\ handled.self =
                 (IF Cardinality(joined) = num_players THEN <<StartMatchMsg>> ELSE <<>>)
           /\ turn_state = AwaitingDraw("East")
           /\ handled.reply = <<local_state_for_player(MS, seat)>>
           /\ handled.reply[1].turn_state = AwaitingDraw("East")
           /\ handled.reply[1].players[seat].hand.current_draw = <<>>
           /\ \A other \in Wind \ {seat} :
                 ~handled.reply[1].players[other].hand.has_current_draw

\* A join has sent start_match behind the join of the other controller that
\* was already waiting in the mailbox.
C13_Witness ==
    /\ JoinedHandled
    /\ handled.self = <<StartMatchMsg>>
    /\ Len(mailbox) = 2
    /\ mailbox[1].type = "join"
    /\ mailbox[2] = StartMatchMsg


\* The handler that ran last was a join on a seat that had a client.
JoinOccupiedHandled ==
    handled.msg.type = "join" /\ handled.pre_clients[handled.msg.seat] # NoClient

\* The controller handles a join for a seat that has a client.
C14_Step ==
    (/\ handled' # handled
     /\ handled'.msg.type = "join"
     /\ clients[handled'.msg.seat] # NoClient)
    => /\ handled'.status = "err"
       /\ handled'.reply = <<>>
       /\ handled'.events = NoEvents
       /\ handled'.self = <<>>
       /\ clients' = clients
       /\ <<players, wall, turn_state>>' = <<players, wall, turn_state>>
       /\ <<locals, outbox, sent, crashed>>' = <<locals, outbox, sent, crashed>>

\* C14: a join on a seat that already has a client, a ClientController or a
\* dummy, fails without a reply; the clients map and the match state stay as
\* they were, nothing is sent, and the client holding the seat keeps its
\* LocalState and its pending answers, so that it goes on receiving the
\* events of the seat.
C14_JoinOccupiedSeat == [][C14_Step]_vars

\* Controller b asked for the seat controller a holds and was refused; a is
\* still the client of the seat.
C14_Witness ==
    /\ JoinOccupiedHandled
    /\ handled.msg.from = "b"
    /\ clients[handled.msg.seat] = "a"

\* A controller asked for a seat after start_match gave it to a dummy and was
\* refused.
C14_WitnessDummy ==
    /\ JoinOccupiedHandled
    /\ handled.pre_clients[handled.msg.seat] = DummyProxy
    /\ clients[handled.msg.seat] = DummyProxy


\* C15: a discard_tile request for a seat sent by a client that does not
\* control the seat is rejected, leaves the match state unchanged and sends
\* no event.
C15_AuthorityCheck ==
    (/\ handled.msg.type = "discard_tile"
     /\ handled.msg.from # handled.pre_clients[handled.msg.seat])
    => /\ handled.status = "err"
       /\ MS = handled.pre
       /\ handled.events = NoEvents


\* start_match has run and every client has answered every event the way a
\* dummy does.
DummyPlayStarted ==
    /\ \A seat \in Wind : clients[seat] # NoClient
    /\ sent # NoEvents
    /\ other_answers = 0

\* No request is waiting in the controller's mailbox and no client has an
\* answer left to send: no handler will run again for the match.
NothingPending ==
    /\ \A m \in Range(mailbox) : m.type = "join"
    /\ \A seat \in Wind : outbox[seat] = <<>>

\* C16: a started match played by the dummy policy ends: once every message
\* has been processed and no request is pending, the wall is empty, no hand
\* holds a draw, the turn state is MatchEnded and every client has been sent
\* MatchEnded; the match never rests in AwaitingDraw, AwaitingDiscard or
\* AwaitingCalls with nothing pending.
C16_Termination ==
    (DummyPlayStarted /\ NothingPending) =>
        /\ wall = <<>>
        /\ \A seat \in Wind : players[seat].current_draw = <<>>
        /\ turn_state.type = "MatchEnded"
        /\ \A seat \in Wind : MatchEndedEvent \in Range(sent[seat])


\* start_match has run: every seat has a client.
MatchStarted == \A seat \in Wind : clients[seat] # NoClient

\* A discard request the match state cannot accept: it is not the seat's turn
\* to discard or the seat does not hold the tile.
InvalidDiscard(seat, tile) ==
    \/ turn_state # AwaitingDiscard(seat)
    \/ Occurrences(players[seat].tiles, tile)
       + Occurrences(players[seat].current_draw, tile) = 0

\* A call request the match state cannot accept: no call phase, a seat that
\* is not waiting, or a call that is not among the seat's possible calls.
InvalidCall(seat, call) ==
    \/ turn_state.type # "AwaitingCalls"
    \/ seat \notin DOMAIN turn_state.waiting
    \/ call # Pass /\ call[1] \notin Range(turn_state.waiting[seat])

\* C17: after match start no handler has panicked, and in every state the
\* match can be in, discard_tile for any seat and any tile id (of the tileset
\* or not) and call_tile for any seat and any call value (a pass, Ron, a Kan
\* of a tile other than the discard, a Pon or Chii of tiles of any hand)
\* return without a panic, with an error result when the request is invalid.
C17_NoPanicOnInput ==
    /\ ~panicked
    /\ MatchStarted =>
          /\ \A seat \in Wind : \A tile \in AnyTileIds :
                LET r == Controller_discard_tile(CS, seat, tile)
                IN IF InvalidDiscard(seat, tile) THEN r.status = "err"
                   ELSE r.status \in {"ok", "err"}
          /\ \A seat \in Wind : \A call \in AnyCalls :
                \A order \in CallOrders(request_call(MS, seat, call)) :
                    LET r == Controller_call_tile(CS, seat, call, order)
                    IN IF InvalidCall(seat, call) THEN r.status = "err"
                       ELSE r.status \in {"ok", "err"}

\* The controller has refused a discard a ClientController sent for a seat
\* whose turn it was not, while one seat alone is waiting to call: any call
\* it names next is decided at once.
C17_Witness ==
    /\ MatchStarted
    /\ handled.msg.type = "discard_tile"
    /\ handled.msg.from \in Controllers
    /\ handled.status = "err"
    /\ handled.pre.turn_state # AwaitingDiscard(handled.msg.seat)
    /\ turn_state.type = "AwaitingCalls"
    /\ Cardinality(DOMAIN turn_state.waiting) = 1


\* ------------------------------------------------------------ hand sizes

CallValues(call) == {by_id(call[2]), by_id(call[3])}

\* The Chii calls of a list of calls.
ChiiCalls(calls) == SelectSeq(calls, LAMBDA c : CallKind(c) = "Chii")

\* The value pairs of two concealed tiles of the hand that make a chow with
\* the discarded value.
LogicalChows(h, discard) ==
    {pair \in {{h.tiles[i].tile, h.tiles[j].tile} : i, j \in 1 .. Len(h.tiles)} :
        \E i, j \in 1 .. Len(h.tiles) :
            /\ i # j
            /\ pair = {h.tiles[i].tile, h.tiles[j].tile}
            /\ is_chow(discard, h.tiles[i].tile, h.tiles[j].tile)}

\* C21: with can_call_chii, find_possible_calls returns no two Chii calls
\* naming the same pair of tile values, and offers every distinct chow the
\* hand can make with the discard exactly once.
C21_ChiiDeduplication ==
    (hand_op.op = "find_possible_calls" /\ hand_op.status = "ok" /\ hand_op.chii) =>
        LET chiis == ChiiCalls(hand_op.calls)
        IN /\ \A i, j \in 1 .. Len(chiis) :
                 i # j => CallValues(chiis[i]) # CallValues(chiis[j])
           /\ {CallValues(chiis[i]) : i \in 1 .. Len(chiis)}
                 = LogicalChows(hand_state, hand_op.tile[1])

\* The positions of the hand's concealed tiles that have the value.
MatchingPositions(h, value) == {i \in 1 .. Len(h.tiles) : h.tiles[i].tile = value}

\* The calls of a kind in a list of calls.
CallsOfKind(calls, kind) == SelectSeq(calls, LAMBDA c : CallKind(c) = kind)

\* The smallest element of a non-empty set of numbers.
Least(S) == CHOOSE x \in S : \A y \in S : x <= y

\* C22: with n concealed tiles of the discarded value, find_possible_calls
\* returns no Pon and no Kan for n < 2, one Pon naming the first two matching
\* tiles and no Kan for n = 2, one Pon and one Kan for n = 3; and no Chii
\* when can_call_chii is false.
C22_PonKanCounts ==
    (hand_op.op = "find_possible_calls" /\ hand_op.status = "ok") =>
        LET matching == MatchingPositions(hand_state, hand_op.tile[1])
            n == Cardinality(matching)
            pons == CallsOfKind(hand_op.calls, "Pon")
            kans == CallsOfKind(hand_op.calls, "Kan")
        IN /\ n < 2 => pons = <<>> /\ kans = <<>>
           /\ n = 2 =>
                 /\ kans = <<>>
                 /\ pons = <<Pon(hand_state.tiles[Least(matching)].id,
                                 hand_state.tiles[Least(matching \ {Least(matching)})].id)>>
           /\ n = 3 => Len(pons) = 1 /\ kans = <<Kan(hand_op.tile[1])>>
           /\ ~hand_op.chii => ChiiCalls(hand_op.calls) = <<>>

\* find_possible_calls has run on a hand holding three tiles of the discarded
\* value and has offered a Pon and a Kan.
C22_Witness ==
    /\ hand_op.op = "find_possible_calls"
    /\ Cardinality(MatchingPositions(hand_state, hand_op.tile[1])) = 3
    /\ Len(CallsOfKind(hand_op.calls, "Pon")) = 1
    /\ Len(CallsOfKind(hand_op.calls, "Kan")) = 1

\* find_possible_calls has run on a hand holding two tiles of the discarded
\* value, apart, and has offered the Pon but no Kan.
C22_WitnessPair ==
    /\ hand_op.op = "find_possible_calls"
    /\ MatchingPositions(hand_state, hand_op.tile[1]) = {1, 3}
    /\ ~hand_op.chii
    /\ hand_op.calls = <<Pon(hand_state.tiles[1].id, hand_state.tiles[3].id)>>

\* C23: a call_tile that returns an error leaves the hand as it was: its
\* concealed tiles, current draw, melds and discards.
C23_CallTileValidatesFirst ==
    (hand_op.op = "call_tile" /\ hand_op.status = "err") =>
        /\ hand_state.tiles = hand_op.pre.tiles
        /\ hand_state.current_draw = hand_op.pre.current_draw
        /\ hand_state.open_chows = hand_op.pre.open_chows
        /\ hand_state.open_pongs = hand_op.pre.open_pongs
        /\ hand_state.open_kongs = hand_op.pre.open_kongs
        /\ hand_state.closed_kongs = hand_op.pre.closed_kongs
        /\ hand_state.discards = hand_op.pre.discards

\* The tiles of a sequence other than the one with the id, in their order.
Without(tiles, id) == SelectSeq(tiles, LAMBDA x : x.id # id)

\* The melds of a hand.
Melds(h) == <<h.open_chows, h.open_pongs, h.open_kongs, h.closed_kongs>>

\* The ids of the tiles in the hand's melds.
MeldIds(h) ==
    {m[i].id : m \in Range(h.open_chows) \cup Range(h.open_pongs), i \in 1 .. 3}
    \cup {m[i].id : m \in Range(h.open_kongs) \cup Range(h.closed_kongs), i \in 1 .. 4}

\* C29: a successful discard_tile(id) takes the tile with that id out of the
\* concealed tiles or the current draw and appends it to the discards, leaves
\* no current draw, appends a current draw that was not discarded to the
\* concealed tiles, keeps the number of concealed tiles and leaves the melds
\* and the earlier discards as they were.
C29_DiscardTileEffect ==
    (hand_op.op = "discard_tile" /\ hand_op.status = "ok") =>
        LET pre == hand_op.pre
            id == hand_op.id[1]
            held == {x \in Range(pre.tiles) \cup Range(pre.current_draw) : x.id = id}
        IN /\ Cardinality(held) = 1
           /\ \A x \in held : hand_state.discards = Append(pre.discards, x)
           /\ hand_state.current_draw = <<>>
           /\ hand_state.tiles = Without(pre.tiles \o pre.current_draw, id)
           /\ Len(hand_state.tiles) = Len(pre.tiles)
           /\ Melds(hand_state) = Melds(pre)

\* A hand that holds a meld and an earlier discard has discarded a concealed
\* tile and taken its current draw among the concealed tiles.
C29_Witness ==
    /\ hand_op.op = "discard_tile" /\ hand_op.status = "ok"
    /\ hand_op.pre.discards # <<>>
    /\ hand_op.pre.open_chows # <<>>
    /\ hand_op.id[1] \in {x.id : x \in Range(hand_op.pre.tiles)}
    /\ hand_state.tiles[Len(hand_state.tiles)] = hand_op.pre.current_draw[1]

\* A hand has discarded its current draw.
C29_WitnessDraw ==
    /\ hand_op.op = "discard_tile" /\ hand_op.status = "ok"
    /\ hand_op.id[1] = hand_op.pre.current_draw[1].id
    /\ hand_state.tiles = hand_op.pre.tiles

\* C30: discard_tile(id) fails with NoDraw on a hand without a current draw,
\* and with NotInHand when id is neither a concealed tile nor the current
\* draw; either way the hand, its current draw included, is as before.
C30_DiscardTileErrors ==
    hand_op.op = "discard_tile" =>
        LET pre == hand_op.pre
            id == hand_op.id[1]
            held == id \in {x.id : x \in Range(pre.tiles) \cup Range(pre.current_draw)}
        IN /\ pre.current_draw = <<>> => hand_op.status = "err" /\ hand_op.ret = "NoDraw"
           /\ (pre.current_draw # <<>> /\ ~held) =>
                 hand_op.status = "err" /\ hand_op.ret = "NotInHand"
           /\ hand_op.status = "err" => hand_state = pre
           /\ hand_op.status \in {"ok", "err"}

\* A hand with a current draw has refused to discard a tile of one of its
\* melds.
C30_Witness ==
    /\ hand_op.op = "discard_tile"
    /\ hand_op.ret = "NotInHand"
    /\ hand_op.id[1] \in MeldIds(hand_state)
    /\ hand_state.current_draw # <<>>

\* A hand with a current draw has refused to discard its last discard.
C30_WitnessDiscarded ==
    /\ hand_op.op = "discard_tile"
    /\ hand_op.ret = "NotInHand"
    /\ hand_state.discards # <<>>
    /\ hand_op.id[1] = hand_state.discards[Len(hand_state.discards)].id
    /\ hand_state.current_draw # <<>>

\* A hand without a current draw has refused to discard a concealed tile.
C30_WitnessNoDraw ==
    /\ hand_op.op = "discard_tile"
    /\ hand_op.ret = "NoDraw"
    /\ hand_op.id[1] = hand_state.tiles[1].id

\* ------------------------------------------------------------ chow properties

\* The orders of three arguments.
Orders3 == {<<1, 2, 3>>, <<1, 3, 2>>, <<2, 1, 3>>, <<2, 3, 1>>, <<3, 1, 2>>, <<3, 2, 1>>}

\* Three simple tiles of one suit whose ranks are m, m + 1, m + 2.
RunOfOneSuit(tiles) ==
    /\ \A i \in 1 .. 3 : is_simple(tiles[i])
    /\ \A i \in 1 .. 3 : suit_of(tiles[i]) = suit_of(tiles[1])
    /\ \E m \in 1 .. (NumRanks - 2) :
          {number_of(tiles[i]) : i \in 1 .. 3} = {m, m + 1, m + 2}

\* C25: is_chow is true exactly for three simple tiles of one suit with ranks
\* m, m + 1, m + 2, and gives the same result for every order of its
\* arguments.
C25_IsChow ==
    hand_op.op = "is_chow" =>
        /\ (hand_op.ret = "true") <=> RunOfOneSuit(hand_op.tile)
        /\ \A order \in Orders3 :
              is_chow(hand_op.tile[order[1]], hand_op.tile[order[2]], hand_op.tile[order[3]])
                 <=> (hand_op.ret = "true")

\* is_chow has accepted Coins 5, Coins 3, Coins 4 given in this order.
C25_Witness ==
    /\ hand_op.op = "is_chow"
    /\ hand_op.tile = <<Coins(5), Coins(3), Coins(4)>>
    /\ hand_op.ret = "true"

\* is_chow has rejected three consecutive tile values that span two suits.
C25_WitnessSuits ==
    /\ hand_op.op = "is_chow"
    /\ hand_op.tile = <<Bamboo(1), Coins(9), Coins(8)>>
    /\ hand_op.ret = "false"

\* ------------------------------------------------------------ call phases

\* The last tile a seat discarded.
LastDiscard(seat) == players[seat].discards[Len(players[seat].discards)]

\* C26: after a successful discard_tile(p, t) the turn state is AwaitingCalls
\* with discarding player p, discard t, no calls and a waiting map that holds
\* exactly the seats q other than p for which find_possible_calls on the
\* value of t, with can_call_chii = (next(p) = q), is not empty, each with
\* that list; when there is no such seat it is AwaitingDraw(next(p)).  So p
\* is not in waiting and only next(p) is offered a Chii.
C26_WaitingAfterDiscard ==
    last_op.op = "discard_tile" =>
        LET p == last_op.pre.seat
            t == LastDiscard(p)
            callers == {q \in Wind \ {p} :
                          find_possible_calls(players[q], t.tile, next(p) = q) # <<>>}
        IN /\ callers # {} =>
                 /\ turn_state.type = "AwaitingCalls"
                 /\ turn_state.discarding_player = p
                 /\ turn_state.discard = t.id
                 /\ turn_state.calls = EmptyMap
                 /\ DOMAIN turn_state.waiting = callers
                 /\ \A q \in callers :
                       turn_state.waiting[q]
                          = find_possible_calls(players[q], t.tile, next(p) = q)
                 /\ p \notin DOMAIN turn_state.waiting
                 /\ \A q \in DOMAIN turn_state.waiting :
                       q # next(p) => ChiiCalls(turn_state.waiting[q]) = <<>>
           /\ callers = {} => turn_state = AwaitingDraw(next(p))

\* A discard has opened a call phase in which the next seat is offered a
\* Chii and another seat a Pon.
C26_Witness ==
    /\ last_op.op = "discard_tile"
    /\ turn_state.type = "AwaitingCalls"
    /\ \E q \in DOMAIN turn_state.waiting :
          q = next(turn_state.discarding_player) /\ ChiiCalls(turn_state.waiting[q]) # <<>>
    /\ \E q \in DOMAIN turn_state.waiting :
          q # next(turn_state.discarding_player)
          /\ CallsOfKind(turn_state.waiting[q], "Pon") # <<>>

\* A discard that no seat can call has passed the turn to the next seat.
C26_WitnessUncalled ==
    /\ last_op.op = "discard_tile"
    /\ turn_state.type = "AwaitingDraw"

\* The outcome r of request_call(q, c) in the current call phase is a
\* success that takes q out of waiting, records c when it is not a pass and
\* changes nothing else; q cannot answer again.
AnswerAccepted(r, q, c) ==
    /\ r.status = "ok"
    /\ r.st.turn_state.type = "AwaitingCalls"
    /\ r.st.turn_state.discarding_player = turn_state.discarding_player
    /\ r.st.turn_state.discard = turn_state.discard
    /\ DOMAIN r.st.turn_state.waiting = (DOMAIN turn_state.waiting) \ {q}
    /\ \A x \in (DOMAIN turn_state.waiting) \ {q} :
          r.st.turn_state.waiting[x] = turn_state.waiting[x]
    /\ DOMAIN r.st.turn_state.calls
          = (DOMAIN turn_state.calls) \cup (IF c = Pass THEN {} ELSE {q})
    /\ \A x \in (DOMAIN turn_state.calls) \ {q} :
          r.st.turn_state.calls[x] = turn_state.calls[x]
    /\ c # Pass => r.st.turn_state.calls[q] = c[1]
    /\ r.st.players = players
    /\ r.st.wall = wall
    /\ \A again \in AnyCalls : MatchState_call_tile(r.st, q, again).status = "err"

\* C27: in AwaitingCalls request_call(q, c) succeeds exactly when q is in
\* waiting and c is a pass or one of waiting[q]; a success removes q from
\* waiting, records c in calls[q] unless it is a pass, and leaves the
\* discarding player, the discard, the other seats' entries, the hands and
\* the wall unchanged, so that a seat has one accepted answer per discard.
C27_RequestCallFrame ==
    turn_state.type = "AwaitingCalls" =>
        \A q \in Wind : \A c \in AnyCalls :
            IF q \in DOMAIN turn_state.waiting
               /\ (c = Pass \/ c[1] \in Range(turn_state.waiting[q]))
            THEN AnswerAccepted(MatchState_call_tile(MS, q, c), q, c)
            ELSE MatchState_call_tile(MS, q, c).status # "ok"

\* A seat has called while another seat, which may call or pass, is still
\* waiting.
C27_Witness ==
    /\ last_op.op = "request_call"
    /\ turn_state.type = "AwaitingCalls"
    /\ DOMAIN turn_state.calls # {}
    /\ DOMAIN turn_state.waiting # {}

\* C28: in AwaitingCalls no two seats have recorded calls of the same kind
\* among Kan, Pon and Chii, so compare_calls does not panic on any two of the
\* recorded calls and decide_call does not panic.
C28_NoRivalCalls ==
    turn_state.type = "AwaitingCalls" =>
        /\ \A a, b \in DOMAIN turn_state.calls :
              a # b =>
                 /\ ~(CallKind(turn_state.calls[a]) = CallKind(turn_state.calls[b])
                      /\ CallKind(turn_state.calls[a]) \in {"Kan", "Pon", "Chii"})
                 /\ compare_calls(a, turn_state.calls[a], b, turn_state.calls[b],
                                  turn_state.discarding_player) # "panic"
        /\ \A order \in IterationOrders(DOMAIN turn_state.calls) :
              decide_call(MS, order).status # "panic"

\* Two seats have called the same discard and nobody is waiting any more:
\* decide_call has two calls to compare.
C28_Witness ==
    /\ turn_state.type = "AwaitingCalls"
    /\ Cardinality(DOMAIN turn_state.calls) >= 2
    /\ DOMAIN turn_state.waiting = {}

\* --------------------------------------------------- local state properties

\* Tile ids an event may name for a LocalState: the discard it tracks, the
\* first tile and the current draw of the local hand, the last id of the tile
\* set and the first.
LocalEventIds(ls) ==
    {0, NumTiles - 1}
    \cup (IF ls.turn_state.type = "AwaitingCalls" THEN {ls.turn_state.discard} ELSE {})
    \cup {ls.players[ls.seat].hand.tiles[1].id}
    \cup {t.id : t \in Range(ls.players[ls.seat].hand.current_draw)}

\* Calls a Call event may name as the winning one: those the LocalState lists
\* and one it does not.
LocalEventCalls(ls) ==
    {Kan(Red)}
    \cup (IF ls.turn_state.type = "AwaitingCalls" THEN Range(ls.turn_state.calls) ELSE {})

\* Seats a Call event may name: the local seat, the seat after it and the
\* discarding player the LocalState tracks.
LocalEventSeats(ls) ==
    {ls.seat, next(ls.seat)}
    \cup (IF ls.turn_state.type = "AwaitingCalls" THEN {ls.turn_state.discarding_player}
          ELSE {})

\* The events a LocalState may be handed.
LocalEvents(ls) ==
    {LocalDraw(seat, id) : seat \in Wind, id \in LocalEventIds(ls)}
    \cup {RemoteDraw(seat) : seat \in Wind}
    \cup {TileDiscarded(seat, id, <<>>) : seat \in Wind, id \in LocalEventIds(ls)}
    \cup {CallEvent(FinalCall(caller, called_from, id, call)) :
            caller \in LocalEventSeats(ls), called_from \in LocalEventSeats(ls),
            id \in LocalEventIds(ls), call \in LocalEventCalls(ls)}
    \cup {PassEvent}

\* The turn state an event is for.
EventMatchesTurn(ls, event) ==
    CASE event.type = "LocalDraw" ->
           event.seat = ls.seat /\ ls.turn_state = AwaitingDraw(ls.seat)
      [] event.type = "RemoteDraw" ->
           event.seat # ls.seat /\ ls.turn_state = AwaitingDraw(event.seat)
      [] event.type = "TileDiscarded" -> ls.turn_state = AwaitingDiscard(event.seat)
      [] event.type = "Pass" -> ls.turn_state.type = "AwaitingCalls"
      [] event.type = "Call" ->
           /\ ls.turn_state.type = "AwaitingCalls"
           /\ event.call.called_from = ls.turn_state.discarding_player
           /\ event.call.discard = ls.turn_state.discard

\* C31: a LocalState accepts a draw, discard, call or pass event only in the
\* turn state the event is for (LocalDraw: own seat and AwaitingDraw(own seat);
\* RemoteDraw: another seat and AwaitingDraw(that seat); TileDiscarded:
\* AwaitingDiscard(seat); Call and Pass: AwaitingCalls, a Call naming the
\* tracked discarding player and discard); in every other case handle_event
\* returns an error and leaves turn_state as it was.
C31_EventsMatchTurn ==
    \A seat \in Wind : \A event \in LocalEvents(locals[seat]) :
        LET r == handle_event(locals[seat], event)
        IN /\ r.status = "ok" => EventMatchesTurn(locals[seat], event)
           /\ ~EventMatchesTurn(locals[seat], event) =>
                 r.status = "err" /\ r.st.turn_state = locals[seat].turn_state

\* A LocalState in a call phase accepts a Call and rejects one naming another
\* discard.
C31_Witness ==
    /\ \E seat \in Wind : \E event \in LocalEvents(locals[seat]) :
          /\ event.type = "Call"
          /\ handle_event(locals[seat], event).status = "ok"
    /\ \E seat \in Wind : \E event \in LocalEvents(locals[seat]) :
          /\ event.type = "Call"
          /\ locals[seat].turn_state.type = "AwaitingCalls"
          /\ event.call.discard # locals[seat].turn_state.discard
          /\ handle_event(locals[seat], event).status = "err"

\* C32: a LocalState that applies a MatchEnded event is in the turn state
\* MatchEnded afterwards, whatever state it was in, and from then on accepts no
\* draw, discard, call or pass event.
C32_MatchEndedIsFinal ==
    \A seat \in Wind :
        LET ended == handle_event(locals[seat], MatchEndedEvent)
        IN /\ ended.status = "ok"
           /\ ended.st.turn_state.type = "MatchEnded"
           /\ \A event \in LocalEvents(ended.st) : handle_event(ended.st, event).status # "ok"

\* C39: applying an event to a LocalState is atomic: when handle_event returns
\* an error, the hands (the discarding player's discards and a RemoteHand's
\* concealed count included) and the turn state are those from before the
\* event.
C39_EventsAtomic ==
    \A seat \in Wind : \A event \in LocalEvents(locals[seat]) :
        LET r == handle_event(locals[seat], event)
        IN r.status = "err" => r.st = locals[seat]

\* ------------------------------------------------------ remote hand properties

\* The last operation was call_tile with a call that find_possible_calls
\* offers for the hand and the discard.
OfferedCallApplied ==
    /\ hand_op.op = "call_tile"
    /\ hand_op.call[1] \in Range(find_possible_calls(hand_op.pre, hand_op.inst[1].tile, TRUE))

\* The RemoteHand of the hand before the call, after the same call.
RemoteAfterCall == RemoteHand_call_tile(to_local(hand_op.pre, FALSE).hand, hand_op.inst[1],
                                        hand_op.call[1])

\* C33: RemoteHand.call_tile mirrors HandState.call_tile: for a hand, a discard
\* and a call that find_possible_calls offers, the call applied to the hand's
\* to_local(false) gives exactly the to_local(false) of the hand after
\* call_tile, the same meld with its tiles in the same order included.
C33_RemoteMirrorsCall ==
    OfferedCallApplied =>
        /\ hand_op.status = "ok"
        /\ RemoteAfterCall.status = "ok"
        /\ RemoteAfterCall.st = to_local(hand_state, FALSE).hand

\* ------------------------------------------------------ call phase broadcasts

\* The Call and Pass events among the events sent to a client.
Outcomes(events) == SelectSeq(events, LAMBDA event : event.type \in {"Call", "Pass"})

\* The TileDiscarded events among the events sent to a client.
DiscardsSent(events) == SelectSeq(events, LAMBDA event : event.type = "TileDiscarded")

\* The discards that opened a call phase: those a seat was sent calls for.
CallPhasesOpened ==
    {k \in 1 .. Len(DiscardsSent(sent["East"])) :
        \E seat \in Wind : /\ k <= Len(DiscardsSent(sent[seat]))
                           /\ DiscardsSent(sent[seat])[k].calls # <<>>}

\* The calls submitted in the call phase the last handler decided: those
\* recorded before it and the one of its own request.
CallsSubmitted ==
    LET before == handled.pre.turn_state.calls
    IN IF handled.msg.call = Pass THEN before
       ELSE MapInsert(before, handled.msg.seat, handled.msg.call[1])

\* The last handler started in a call phase and ended it.
CallPhaseDecided ==
    /\ handled.pre.turn_state.type = "AwaitingCalls"
    /\ turn_state.type # "AwaitingCalls"

\* C34: a handler that leaves the match in the call phase it found it in
\* (a seat is still waiting) sends no event; the handler of the last waiting
\* seat's answer sends every client one and the same event first, a Call
\* naming one of the submitted calls when there is one and Pass otherwise;
\* and each client has been sent exactly one Call or Pass per decided discard
\* that opened a call phase.
C34_CallPhaseBroadcast ==
    /\ (handled.pre.turn_state.type = "AwaitingCalls" /\ turn_state.type = "AwaitingCalls")
          => handled.events = NoEvents
    /\ CallPhaseDecided =>
          /\ \A seat \in Wind :
                /\ Len(Outcomes(handled.events[seat])) = 1
                /\ handled.events[seat][1] = handled.events["East"][1]
          /\ IF DOMAIN CallsSubmitted = {}
             THEN handled.events["East"][1] = PassEvent
             ELSE \E caller \in DOMAIN CallsSubmitted :
                     handled.events["East"][1] =
                         CallEvent(FinalCall(caller,
                                             handled.pre.turn_state.discarding_player,
                                             handled.pre.turn_state.discard,
                                             CallsSubmitted[caller]))
    /\ \A seat \in Wind :
          clients[seat] # NoClient =>
              Len(Outcomes(sent[seat])) =
                  Cardinality(CallPhasesOpened)
                  - (IF turn_state.type = "AwaitingCalls" THEN 1 ELSE 0)

\* The last of two waiting seats has answered after the other had called:
\* the first answer brought no event, the second a Call to every client.
C34_Witness ==
    /\ CallPhaseDecided
    /\ DOMAIN handled.pre.turn_state.calls # {}
    /\ handled.events["East"][1].type = "Call"
    /\ \A seat \in Wind : Len(Outcomes(sent[seat])) = Cardinality(CallPhasesOpened)

\* ------------------------------------------------------ dummy client properties

\* What the policy has a dummy submit in the state an event left it in.
PolicyRequests(seat, state) ==
    IF state.turn_state = AwaitingDiscard(seat)
    THEN <<DiscardTileMsg(DummyProxy, seat, state.players[seat].hand.tiles[1].id)>>
    ELSE IF state.turn_state.type = "AwaitingCalls" /\ state.turn_state.calls # <<>>
    THEN <<CallTileMsg(DummyProxy, seat, <<state.turn_state.calls[1]>>)>>
    ELSE <<>>

\* The events of a sequence that a seat's client may answer: a draw of its
\* own and a discard of another seat.
Answerable(seat, events) ==
    SelectSeq(events, LAMBDA event :
                 \/ event.type = "LocalDraw" /\ event.seat = seat
                 \/ event.type = "TileDiscarded" /\ event.seat # seat)

\* One handler run of the controller as a dummy on a seat sees it: the events
\* it was sent and the requests it submitted are the new ends of sent and of
\* the seat's outbox.
C35_Step ==
    \A seat \in Wind :
        (clients'[seat] = DummyProxy /\ seat \notin crashed' /\ sent'[seat] # sent[seat]) =>
            LET events == SubSeq(sent'[seat], Len(sent[seat]) + 1, Len(sent'[seat]))
                answers == SubSeq(outbox'[seat], Len(outbox[seat]) + 1, Len(outbox'[seat]))
                requests == [i \in 1 .. Len(answers) |-> answers[i].policy[1]]
            IN /\ requests = PolicyRequests(seat, locals'[seat])
               /\ Len(requests) <= Len(Answerable(seat, events))

\* C35: a dummy client that has applied the events of a handler run has
\* submitted the discard of the first tile of its concealed hand when its
\* turn state is AwaitingDiscard(own seat), the first call of the list when
\* it is AwaitingCalls with a non-empty list, and nothing in every other
\* state; it submits at most one request per draw of its own and per discard
\* of another seat.
C35_DummyPolicy == [][C35_Step]_vars

\* A dummy that can call the last discard has sent the first call of its
\* list to the controller, another dummy the discard of its first tile.
C35_Witness ==
    /\ \E seat \in Wind :
          /\ clients[seat] = DummyProxy
          /\ locals[seat].turn_state.type = "AwaitingCalls"
          /\ locals[seat].turn_state.calls # <<>>
          /\ CallTileMsg(DummyProxy, seat, <<locals[seat].turn_state.calls[1]>>)
                \in Range(mailbox)
    /\ \E seat \in Wind :
          /\ clients[seat] = DummyProxy
          /\ handled.msg = DiscardTileMsg(DummyProxy, seat, handled.pre.players[seat].tiles[1].id)
          /\ handled.status = "ok"

\* ------------------------------------------------------- call phase outcomes

\* The melds of a hand, as one sequence.
AllMelds(h) == h.open_chows \o h.open_pongs \o h.open_kongs \o h.closed_kongs

\* C36: every call find_possible_calls returned for a seat at the discard,
\* whether the seat is yet to answer or has had it recorded by request_call,
\* is accepted by call_tile on the seat's hand with the discarded tile; and
\* when decide_call has let a call win, the tile popped from the discarding
\* player's discards lies in a meld of the winner.
C36_OfferedCallsSucceed ==
    /\ turn_state.type = "AwaitingCalls" =>
          LET discard == LastDiscard(turn_state.discarding_player)
          IN /\ discard.id = turn_state.discard
             /\ \A seat \in DOMAIN turn_state.waiting :
                   \A call \in Range(turn_state.waiting[seat]) :
                       Hand_call_tile(players[seat], discard, call).status = "ok"
             /\ \A seat \in DOMAIN turn_state.calls :
                   Hand_call_tile(players[seat], discard, turn_state.calls[seat]).status = "ok"
    /\ (last_op.op = "decide_call" /\ last_op.winner # <<>>) =>
          MeldOccurrences(AllMelds(players[last_op.winner[1].seat]), last_op.pre.discard) = 1

\* decide_call has applied a winning Chii: the called tile is the first tile
\* of the caller's new chow.
C36_Witness ==
    /\ last_op.op = "decide_call"
    /\ last_op.winner # <<>>
    /\ CallKind(last_op.winner[1].call) = "Chii"
    /\ LET c == last_op.winner[1].seat
       IN /\ players[c].open_chows # <<>>
          /\ players[c].open_chows[Len(players[c].open_chows)][1].id = last_op.pre.discard

\* The answers the waiting seats of a call phase may give: for each seat a
\* pass or one of its possible calls.
AnswerChoices(ms) ==
    LET waiting == ms.turn_state.waiting
        allowed(seat) == {Pass} \cup {<<c>> : c \in Range(waiting[seat])}
    IN {answers \in [DOMAIN waiting -> UNION {allowed(seat) : seat \in DOMAIN waiting}] :
           \A seat \in DOMAIN waiting : answers[seat] \in allowed(seat)}

\* request_call for the seats in the given order, each with its answer.
RECURSIVE RequestCalls(_, _, _)
RequestCalls(ms, order, answers) ==
    IF order = <<>> THEN [status |-> "ok", st |-> ms, ret |-> "unit"]
    ELSE LET r == MatchState_call_tile(ms, Head(order), answers[Head(order)])
         IN IF r.status # "ok" THEN r
            ELSE RequestCalls(r.st, Tail(order), answers)

\* What a call phase can come to for given answers: the seats answer in any
\* order and decide_call iterates the recorded calls in any order.
PhaseOutcomes(ms, answers) ==
    UNION {LET requested == RequestCalls(ms, answering, answers)
           IN IF requested.status # "ok" THEN {requested}
              ELSE {decide_call(requested.st, order) :
                      order \in IterationOrders(DOMAIN requested.st.turn_state.calls)} :
           answering \in IterationOrders(DOMAIN answers)}

\* C37: in a call phase, for any answer of each waiting seat, every order in
\* which the seats' request_call invocations are made, followed by
\* decide_call, gives one and the same outcome: decide_call succeeds with the
\* same winning seat and call and leaves the same MatchState.
C37_AnswerOrderIrrelevant ==
    turn_state.type = "AwaitingCalls" =>
        \A answers \in AnswerChoices(MS) :
            /\ Cardinality(PhaseOutcomes(MS, answers)) = 1
            /\ \A outcome \in PhaseOutcomes(MS, answers) : outcome.status = "ok"

\* Two seats are waiting, each with a call of its own to make: their answers
\* can come in two orders and decide_call has two calls to rank.
C37_Witness ==
    /\ turn_state.type = "AwaitingCalls"
    /\ Cardinality(DOMAIN turn_state.waiting) >= 2
    /\ \E answers \in AnswerChoices(MS) :
          /\ \A seat \in DOMAIN answers : answers[seat] # Pass
          /\ \E outcome \in PhaseOutcomes(MS, answers) : outcome.ret # <<>>

\* ------------------------------------------------------ match start properties

\* The start_match messages waiting in the controller's mailbox.
StartsPending == SelectSeq(mailbox, LAMBDA m : m.type = "start_match")

\* C38: start_match runs at most once per match (at most one start_match is
\* ever waiting, none once the four seats are filled, and the handler only
\* ever ran with a seat still empty), no join succeeds once start_match has
\* filled the seats, and every client that joined has been sent every event
\* of the match, the first draw first.
C38_SingleStart ==
    /\ Len(StartsPending) <= 1
    /\ MatchStarted => StartsPending = <<>>
    /\ handled.msg.type = "start_match" =>
          \E seat \in Wind : handled.pre_clients[seat] = NoClient
    /\ (handled.msg.type = "join" /\ handled.status = "ok") =>
          /\ \E seat \in Wind : handled.pre_clients[seat] = NoClient
          /\ sent = NoEvents
    /\ ~MatchStarted => sent = NoEvents
    /\ \A seat \in Wind :
          clients[seat] \in Controllers =>
              /\ \A other \in Wind :
                    clients[other] # NoClient => Len(sent[seat]) = Len(sent[other])
              /\ sent[seat] # <<>> =>
                    sent[seat][1] = broadcast_draw(seat, "East", tileset[Len(tileset)].id)

\* A join that reached the controller after start_match had run was refused:
\* the four seats were filled, one of them by the client that had joined in
\* time and has been sent the first draw.
C38_Witness ==
    /\ handled.msg.type = "join"
    /\ handled.status = "err"
    /\ \A seat \in Wind : handled.pre_clients[seat] # NoClient
    /\ \E seat \in Wind : clients[seat] \in Controllers /\ sent[seat] # <<>>

\* ------------------------------------------------------ delivery properties

\* C40: every event the controller delivers is applicable to the LocalState
\* of the client that processes it, whatever the interleaving of the
\* controller and the clients: no client has stopped on a consistency error
\* of handle_event; and every request a dummy client submitted as its
\* reaction to an event is accepted by the controller.
C40_EventsApplicable ==
    /\ crashed = {}
    /\ handled.msg.from = DummyProxy => handled.status = "ok"

====
